---- MODULE Spec2Model ----
(***************************************************************************)
(* Model of the QA repository evaluation tool (qa_repo_eval_tool):         *)
(* the scoring functions of metrics_calculator.py, the category averages   *)
(* of types.py, the analysis pipeline of qa_analysis.py and the batch      *)
(* orchestration of metrics.py.                                            *)
(*                                                                         *)
(* Python floats are IEEE-754 binary64 numbers.  They are modelled exactly *)
(* as m * 2^e with m an arbitrary-precision natural number, and every      *)
(* float operation rounds its exact result to 53 significant bits, ties to *)
(* even, as the hardware does.  The values of this program are finite,     *)
(* non-negative and far from overflow and underflow.                       *)
(***************************************************************************)
EXTENDS Integers, Sequences, FiniteSets, TLC

VARIABLES
    arg_metrics,        \* scoring functions: the QAMetrics argument
    arg_score,          \* scoring functions: the overall_score argument
    call,               \* scoring functions: the function applied last
    ret,                \* scoring functions: what that call returned
    hash_seed,          \* the running interpreter: the order of each set
    prev,               \* summary functions: the call before this one
    repo_urls,          \* batch_compute_qa_metrics: argument
    continue_on_error,  \* batch_compute_qa_metrics: argument
    keep_clone,         \* batch_compute_qa_metrics: argument
    github_token,       \* batch_compute_qa_metrics: argument
    i,                  \* batch loop: 1-based index of the current URL
    pc,                 \* position inside the batch loop and the pipeline
    results,            \* batch loop: the results list
    locals,             \* compute_qa_metrics / analyze_full_qa_repository
    tmp_dirs,           \* indexes of the URLs whose clone directory exists
    world,              \* what the collaborators did for the current URL
    log                 \* what the collaborators did for each finished URL

scoring_vars == <<arg_metrics, arg_score, call, ret, hash_seed, prev>>

batch_vars ==
    <<repo_urls, continue_on_error, keep_clone, github_token, i, pc, results,
      locals, tmp_dirs, world, log>>

vars == <<scoring_vars, batch_vars>>

----------------------------------------------------------------------------
(* Arbitrary-precision naturals: little-endian sequences of limbs in       *)
(* 0..LimbBase-1 without high zero limbs; <<>> is zero.                    *)

LimbBase == 2^13

RECURSIVE BitLenInt(_)
BitLenInt(n) == IF n = 0 THEN 0 ELSE 1 + BitLenInt(n \div 2)

LimbBits == BitLenInt(LimbBase) - 1

Min(a, b) == IF a <= b THEN a ELSE b

RECURSIVE BFromInt(_)
BFromInt(n) == IF n = 0 THEN <<>> ELSE <<n % LimbBase>> \o BFromInt(n \div LimbBase)

RECURSIVE BToInt(_)
BToInt(a) == IF a = <<>> THEN 0 ELSE Head(a) + LimbBase * BToInt(Tail(a))

RECURSIVE BAddC(_, _, _)
BAddC(a, b, c) ==
    IF a = <<>> /\ b = <<>>
    THEN (IF c = 0 THEN <<>> ELSE <<c>>)
    ELSE LET x == (IF a = <<>> THEN 0 ELSE Head(a))
                + (IF b = <<>> THEN 0 ELSE Head(b)) + c
         IN  <<x % LimbBase>>
             \o BAddC(IF a = <<>> THEN <<>> ELSE Tail(a),
                      IF b = <<>> THEN <<>> ELSE Tail(b), x \div LimbBase)

BAdd(a, b) == BAddC(a, b, 0)

RECURSIVE BMulSmallC(_, _, _)
BMulSmallC(a, k, c) ==
    IF a = <<>>
    THEN (IF c = 0 THEN <<>> ELSE BFromInt(c))
    ELSE LET x == Head(a) * k + c
         IN  <<x % LimbBase>> \o BMulSmallC(Tail(a), k, x \div LimbBase)

(* a * k for 0 <= k <= LimbBase *)
BMulSmall(a, k) == IF k = 0 THEN <<>> ELSE BMulSmallC(a, k, 0)

BShlLimbs(a, n) == IF a = <<>> THEN <<>> ELSE [k \in 1..n |-> 0] \o a

RECURSIVE BMul(_, _)
BMul(a, b) ==
    IF b = <<>> THEN <<>>
    ELSE BAdd(BMulSmall(a, Head(b)), BShlLimbs(BMul(a, Tail(b)), 1))

RECURSIVE BCmpFrom(_, _, _)
BCmpFrom(a, b, k) ==
    IF k = 0 THEN 0
    ELSE IF a[k] > b[k] THEN 1
    ELSE IF a[k] < b[k] THEN -1
    ELSE BCmpFrom(a, b, k - 1)

(* -1, 0 or 1 as a < b, a = b, a > b *)
BCmp(a, b) ==
    IF Len(a) > Len(b) THEN 1
    ELSE IF Len(a) < Len(b) THEN -1
    ELSE BCmpFrom(a, b, Len(a))

RECURSIVE BNorm(_)
BNorm(a) ==
    IF a = <<>> THEN <<>>
    ELSE IF a[Len(a)] = 0 THEN BNorm(SubSeq(a, 1, Len(a) - 1))
    ELSE a

(* quotient and remainder of a by d, for 1 <= d <= LimbBase *)
RECURSIVE BDivSmallFrom(_, _, _, _)
BDivSmallFrom(a, d, k, r) ==
    IF k = 0 THEN [q |-> <<>>, r |-> r]
    ELSE LET x    == r * LimbBase + a[k]
             rest == BDivSmallFrom(a, d, k - 1, x % d)
         IN  [q |-> Append(rest.q, x \div d), r |-> rest.r]

BDivSmall(a, d) ==
    LET res == BDivSmallFrom(a, d, Len(a), 0)
    IN  [q |-> BNorm(res.q), r |-> res.r]

BitLen(a) ==
    IF a = <<>> THEN 0 ELSE LimbBits * (Len(a) - 1) + BitLenInt(a[Len(a)])

BShl(a, d) == BShlLimbs(BMulSmall(a, 2^(d % LimbBits)), d \div LimbBits)

BShr(a, d) ==
    LET n == d \div LimbBits
    IN  IF n >= Len(a) THEN <<>>
        ELSE BDivSmall(SubSeq(a, n + 1, Len(a)), 2^(d % LimbBits)).q

BIsOdd(a) == a # <<>> /\ Head(a) % 2 = 1

----------------------------------------------------------------------------
(* IEEE-754 binary64 arithmetic on non-negative finite values.             *)

(* significant bits of a binary64 *)
MantBits == 53

(* extra quotient bits a division computes before it rounds *)
GuardBits == MantBits + 11

(* the double nearest to m * 2^e (plus a non-zero amount below one unit of *)
(* m when sticky), ties to even; sticky is only passed with an m of more   *)
(* than MantBits bits                                                      *)
RoundToDouble(m, e, sticky) ==
    LET len == BitLen(m)
    IN  IF len <= MantBits THEN [m |-> m, e |-> e]
        ELSE LET d   == len - MantBits
                 q   == BShr(m, d)
                 mid == BAdd(BShl(q, d), BShl(<<1>>, d - 1))
                 c   == BCmp(m, mid)
                 up  == c > 0 \/ (c = 0 /\ (sticky \/ BIsOdd(q)))
             IN  [m |-> IF up THEN BAdd(q, <<1>>) ELSE q, e |-> e + d]

(* float(n) for an int 0 <= n < 2^31 *)
FFromInt(n) == [m |-> BFromInt(n), e |-> 0]

FAdd(x, y) ==
    LET e == Min(x.e, y.e)
    IN  RoundToDouble(BAdd(BShl(x.m, x.e - e), BShl(y.m, y.e - e)), e, FALSE)

FMul(x, y) == RoundToDouble(BMul(x.m, y.m), x.e + y.e, FALSE)

(* x / d for a divisor whose value is the integer d, 1 <= d <= LimbBase.   *)
(* The dividend is shifted by the bit length of d on top of the guard bits *)
(* so that a non-zero quotient always has more than MantBits bits and is   *)
(* rounded, with the remainder as the sticky bit, however small it is.     *)
FDivSmall(x, d) ==
    LET shift == GuardBits + BitLenInt(d)
        qr    == BDivSmall(BShl(x.m, shift), d)
    IN  RoundToDouble(qr.q, x.e - shift, qr.r # 0)

(* -1, 0 or 1 as x < y, x = y, x > y *)
FCmp(x, y) ==
    LET e == Min(x.e, y.e)
    IN  BCmp(BShl(x.m, x.e - e), BShl(y.m, y.e - e))

(* int(x): truncation toward zero *)
FTrunc(x) ==
    IF x.e >= 0 THEN BToInt(BShl(x.m, x.e)) ELSE BToInt(BShr(x.m, -x.e))

(* the decimal literal num/den (den <= LimbBase) as the nearest double *)
FLit(num, den) == FDivSmall(FFromInt(num), den)

(* the integer nearest to x * 10^digits is what format(x, ".1f") prints;   *)
(* FTenths(x) is that integer for one digit, computed on the exact value   *)
FTenths(x) ==
    LET m10 == BMulSmall(x.m, 10)
    IN  IF x.e >= 0 THEN BToInt(BShl(m10, x.e))
        ELSE LET d   == -x.e
                 q   == BShr(m10, d)
                 mid == BAdd(BShl(q, d), BShl(<<1>>, d - 1))
                 c   == BCmp(m10, mid)
                 up  == c > 0 \/ (c = 0 /\ BIsOdd(q))
             IN  BToInt(IF up THEN BAdd(q, <<1>>) ELSE q)

----------------------------------------------------------------------------
(* Python values.  A message is the sequence of the pieces it was built    *)
(* from (literal parts and decimal digits), in order; a text that is       *)
(* searched or parsed (a file name, a URL) is the sequence of its          *)
(* characters; None is the empty tuple and a present optional value v is   *)
(* <<v>>.                                                                  *)

None == <<>>

Some(v) == <<v>>

DigitChars == <<"0", "1", "2", "3", "4", "5", "6", "7", "8", "9">>

RECURSIVE Digits(_)
Digits(n) ==
    IF n < 10 THEN <<DigitChars[n + 1]>>
    ELSE Digits(n \div 10) \o <<DigitChars[(n % 10) + 1]>>

(* str(n) and f"{n}" for an int *)
Str(n) == IF n < 0 THEN <<"-">> \o Digits(-n) ELSE Digits(n)

(* f"{x:.1f}" for a non-negative float *)
Fmt1f(x) ==
    LET t == FTenths(x) IN Digits(t \div 10) \o <<".">> \o Digits(t % 10)

(* sep.join(parts) *)
RECURSIVE Join(_, _)
Join(parts, sep) ==
    IF parts = <<>> THEN <<>>
    ELSE IF Len(parts) = 1 THEN parts[1]
    ELSE parts[1] \o <<sep>> \o Join(Tail(parts), sep)

(* sum() of a list of ints *)
RECURSIVE SeqSum(_)
SeqSum(s) == IF s = <<>> THEN 0 ELSE Head(s) + SeqSum(Tail(s))

----------------------------------------------------------------------------
(* types.py *)

(* the categories of QAMetrics.get_category_scores, in the order of the    *)
(* mapping it returns; a category's metrics object is the sequence of its  *)
(* five sub-score fields in declaration order                              *)
CategoryNames ==
    <<"test_automation", "ci_pipeline", "quality_process",
      "technical_skills", "repository_structure">>

SubScoreCount == 5

get_category_scores(metrics) ==
    [c \in {CategoryNames[k] : k \in 1..Len(CategoryNames)} |->
        FDivSmall(FFromInt(SeqSum(metrics[c])), SubScoreCount)]

(* QA_LEVEL_THRESHOLDS whose Intermediate level starts at 55 *)
LevelThresholds_HighIntermediate ==
    << <<"Expert", 85>>, <<"Advanced", 70>>,
       <<"Intermediate", 55>>, <<"Beginner", 0>> >>

QA_LEVEL_THRESHOLDS ==
    << <<"Expert", 85>>, <<"Advanced", 70>>,
       <<"Intermediate", 50>>, <<"Beginner", 0>> >>

(* VERDICT_THRESHOLDS with the CONDITIONAL_PASS threshold mistyped *)
Thresholds_LowConditional == [PASS |-> 70, CONDITIONAL_PASS |-> 40, FAIL |-> 0]

VERDICT_THRESHOLDS == [PASS |-> 70, CONDITIONAL_PASS |-> 50, FAIL |-> 0]

(* MINIMUM_REQUIREMENTS whose PASS set forgets repository_structure *)
Requirements_WithoutStructure ==
    [PASS |->
        [min_test_files      |-> 5,
         min_commit_count    |-> 10,
         required_categories |-> <<"test_automation">>,
         min_category_score  |-> FLit(60, 10)],
     CONDITIONAL_PASS |->
        [min_test_files      |-> 3,
         min_commit_count    |-> 5,
         required_categories |-> <<"test_automation">>,
         min_category_score  |-> FLit(40, 10)]]

MINIMUM_REQUIREMENTS ==
    [PASS |->
        [min_test_files      |-> 5,
         min_commit_count    |-> 10,
         required_categories |-> <<"test_automation", "repository_structure">>,
         min_category_score  |-> FLit(60, 10)],
     CONDITIONAL_PASS |->
        [min_test_files      |-> 3,
         min_commit_count    |-> 5,
         required_categories |-> <<"test_automation">>,
         min_category_score  |-> FLit(40, 10)]]

QAResult(url, metrics, error_message) ==
    [url |-> url, metrics |-> metrics, error_message |-> error_message]

is_successful(r) == r.metrics # None /\ r.error_message = None

----------------------------------------------------------------------------
(* metrics_calculator.py *)

(* ScoreWeights that weigh repository_structure in place of ci_pipeline *)
ScoreWeights_WithStructure ==
    << <<"test_automation", 30>>, <<"technical_skills", 25>>,
       <<"quality_process", 25>>, <<"repository_structure", 20>> >>

(* ScoreWeights with a test_automation weight that makes the sum 1.05 *)
ScoreWeights_Heavy ==
    << <<"test_automation", 35>>, <<"technical_skills", 25>>,
       <<"quality_process", 25>>, <<"ci_pipeline", 20>> >>

(* the weights mapping, in insertion order, as (category, numerator of     *)
(* the two-decimal literal)                                                *)
ScoreWeights ==
    << <<"test_automation", 30>>, <<"technical_skills", 25>>,
       <<"quality_process", 25>>, <<"ci_pipeline", 20>> >>

(* sum(category_scores[c] * w for c, w in weights.items()): the built-in   *)
(* sum starts from the int 0 and adds the products left to right           *)
RECURSIVE WeightedSum(_, _, _)
WeightedSum(scores, weights, acc) ==
    IF weights = <<>> THEN acc
    ELSE WeightedSum(scores, Tail(weights),
            FAdd(acc, FMul(scores[Head(weights)[1]],
                           FLit(Head(weights)[2], 100))))

calculate_overall_qa_score(metrics) ==
    LET weighted_score ==
            WeightedSum(get_category_scores(metrics), ScoreWeights, FFromInt(0))
    IN  FTrunc(FMul(weighted_score, FFromInt(10)))

(* sorted(items, key=threshold, reverse=True): stable insertion sort *)
RECURSIVE InsertDesc(_, _)
InsertDesc(sorted, item) ==
    IF sorted = <<>> THEN <<item>>
    ELSE IF Head(sorted)[2] >= item[2]
         THEN <<Head(sorted)>> \o InsertDesc(Tail(sorted), item)
         ELSE <<item>> \o sorted

(* SortedDesc without reverse=True: ascending thresholds *)
RECURSIVE InsertAsc(_, _)
InsertAsc(sorted, item) ==
    IF sorted = <<>> THEN <<item>>
    ELSE IF Head(sorted)[2] <= item[2]
         THEN <<Head(sorted)>> \o InsertAsc(Tail(sorted), item)
         ELSE <<item>> \o sorted

RECURSIVE SortedAsc(_)
SortedAsc(items) ==
    IF items = <<>> THEN <<>>
    ELSE InsertAsc(SortedAsc(SubSeq(items, 1, Len(items) - 1)),
                   items[Len(items)])

RECURSIVE SortedDesc(_)
SortedDesc(items) ==
    IF items = <<>> THEN <<>>
    ELSE InsertDesc(SortedDesc(SubSeq(items, 1, Len(items) - 1)),
                    items[Len(items)])

RECURSIVE FirstLevelMet(_, _)
FirstLevelMet(levels, overall_score) ==
    IF levels = <<>> THEN "Beginner"
    ELSE IF overall_score >= Head(levels)[2] THEN Head(levels)[1]
    ELSE FirstLevelMet(Tail(levels), overall_score)

determine_qa_level(overall_score) ==
    FirstLevelMet(SortedDesc(QA_LEVEL_THRESHOLDS), overall_score)

(* FailCheck that appends the reason and forgets the downgrade *)
FailCheck_KeepVerdict(st, reason) ==
    [verdict |-> st.verdict, reasons |-> Append(st.reasons, reason)]

(* FailCheck that downgrades one level on every failed check *)
FailCheck_Cascade(st, reason) ==
    [verdict |-> IF st.verdict = "PASS" THEN "CONDITIONAL_PASS" ELSE "FAIL",
     reasons |-> Append(st.reasons, reason)]

(* a failed requirement check appends its reason and turns PASS into       *)
(* CONDITIONAL_PASS                                                        *)
FailCheck(st, reason) ==
    [verdict |-> IF st.verdict = "PASS" THEN "CONDITIONAL_PASS" ELSE st.verdict,
     reasons |-> Append(st.reasons, reason)]

RECURSIVE CheckCategories(_, _, _, _)
CheckCategories(st, category_scores, required, min_category_score) ==
    IF required = <<>> THEN st
    ELSE CheckCategories(
            IF FCmp(category_scores[Head(required)], min_category_score) < 0
            THEN FailCheck(st, <<"Low ", Head(required), " score (">>
                               \o Fmt1f(category_scores[Head(required)])
                               \o <<")">>)
            ELSE st,
            category_scores, Tail(required), min_category_score)

(* StartVerdict that gives FAIL without recording why *)
StartVerdict_Silent(overall_score) ==
    IF overall_score >= VERDICT_THRESHOLDS.PASS
    THEN [verdict |-> "PASS", reasons |-> <<>>]
    ELSE IF overall_score >= VERDICT_THRESHOLDS.CONDITIONAL_PASS
    THEN [verdict |-> "CONDITIONAL_PASS", reasons |-> <<>>]
    ELSE [verdict |-> "FAIL", reasons |-> <<>>]

(* the verdict and the reasons the overall score alone gives *)
StartVerdict(overall_score) ==
    IF overall_score >= VERDICT_THRESHOLDS.PASS
    THEN [verdict |-> "PASS", reasons |-> <<>>]
    ELSE IF overall_score >= VERDICT_THRESHOLDS.CONDITIONAL_PASS
    THEN [verdict |-> "CONDITIONAL_PASS", reasons |-> <<>>]
    ELSE [verdict |-> "FAIL",
          reasons |-> << <<"Overall QA score (">> \o Str(overall_score)
                         \o <<") is below minimum threshold">> >>]

CheckTestFiles(st, metrics, requirements) ==
    IF metrics.test_file_count < requirements.min_test_files
    THEN FailCheck(st, <<"Insufficient test files (">>
                       \o Str(metrics.test_file_count) \o <<" < ">>
                       \o Str(requirements.min_test_files) \o <<")">>)
    ELSE st

CheckCommits(st, metrics, requirements) ==
    IF metrics.commit_count < requirements.min_commit_count
    THEN FailCheck(st, <<"Insufficient commit history (">>
                       \o Str(metrics.commit_count) \o <<" < ">>
                       \o Str(requirements.min_commit_count) \o <<")">>)
    ELSE st

(* CheckRequirements with the commit check ahead of the test file check *)
CheckRequirements_CommitsFirst(st, metrics, requirements) ==
    CheckCategories(
        CheckTestFiles(CheckCommits(st, metrics, requirements),
                       metrics, requirements),
        get_category_scores(metrics),
        requirements.required_categories,
        requirements.min_category_score)

(* CheckRequirements that looks the requirement set up again from the     *)
(* verdict the test file check left                                        *)
CheckRequirements_Reselect(st, metrics, requirements) ==
    CheckCategories(
        CheckCommits(
            CheckTestFiles(st, metrics, requirements), metrics,
            MINIMUM_REQUIREMENTS[CheckTestFiles(st, metrics, requirements).verdict]),
        get_category_scores(metrics),
        MINIMUM_REQUIREMENTS[
            CheckTestFiles(st, metrics, requirements).verdict].required_categories,
        MINIMUM_REQUIREMENTS[
            CheckTestFiles(st, metrics, requirements).verdict].min_category_score)

(* the three requirement checks, in the order of the code *)
CheckRequirements(st, metrics, requirements) ==
    CheckCategories(
        CheckCommits(CheckTestFiles(st, metrics, requirements),
                     metrics, requirements),
        get_category_scores(metrics),
        requirements.required_categories,
        requirements.min_category_score)

ScoreSuffix(overall_score) == <<" (Score: ">> \o Str(overall_score) \o <<")">>

(* the reason string built from the final verdict and the reasons *)
BuildReason(verdict, reasons, overall_score) ==
    IF reasons = <<>>
    THEN IF verdict = "PASS"
         THEN <<"Strong QA skills demonstrated across all areas">>
              \o ScoreSuffix(overall_score)
         ELSE IF verdict = "CONDITIONAL_PASS"
         THEN <<"Good QA foundation with room for improvement">>
              \o ScoreSuffix(overall_score)
         ELSE <<"QA skills need significant development">>
              \o ScoreSuffix(overall_score)
    ELSE IF verdict = "CONDITIONAL_PASS"
         THEN Join(reasons, "; ") \o ScoreSuffix(overall_score)
         ELSE Join(reasons, "; ")

VerdictOf(st, overall_score) ==
    <<st.verdict, BuildReason(st.verdict, st.reasons, overall_score)>>

determine_verdict(metrics, overall_score) ==
    VerdictOf(
        IF StartVerdict(overall_score).verdict = "FAIL"
        THEN StartVerdict(overall_score)
        ELSE CheckRequirements(
                StartVerdict(overall_score), metrics,
                MINIMUM_REQUIREMENTS[StartVerdict(overall_score).verdict]),
        overall_score)

(* category.replace("_", " ").title() for the category names *)
Humanize ==
    [test_automation      |-> "Test Automation",
     ci_pipeline          |-> "Ci Pipeline",
     quality_process      |-> "Quality Process",
     technical_skills     |-> "Technical Skills",
     repository_structure |-> "Repository Structure"]

STRENGTH_THRESHOLD == FLit(75, 10)

(* IMPROVEMENT_THRESHOLD mistyped as 6.0 *)
ImprovementThreshold_Six == FLit(60, 10)

IMPROVEMENT_THRESHOLD == FLit(50, 10)

(* the insight lists as a record of strengths and improvements *)
AddStrength(ins, label) ==
    [strengths |-> Append(ins.strengths, label), improvements |-> ins.improvements]

AddImprovement(ins, label) ==
    [strengths |-> ins.strengths, improvements |-> Append(ins.improvements, label)]

(* for category, score in category_scores.items() *)
RECURSIVE CategoryInsights(_, _, _)
CategoryInsights(ins, category_scores, names) ==
    IF names = <<>> THEN ins
    ELSE CategoryInsights(
            IF FCmp(category_scores[Head(names)], STRENGTH_THRESHOLD) >= 0
            THEN AddStrength(ins, Humanize[Head(names)])
            ELSE IF FCmp(category_scores[Head(names)], IMPROVEMENT_THRESHOLD) < 0
            THEN AddImprovement(ins, Humanize[Head(names)])
            ELSE ins,
            category_scores, Tail(names))

(* RatioInsight that accepts a ratio of exactly 0.3 *)
RatioInsight_AtLeast(ins, metrics) ==
    IF metrics.test_file_count = 0
    THEN AddImprovement(ins, "Test Coverage - No test files found")
    ELSE IF FCmp(FDivSmall(FFromInt(metrics.test_file_count),
                           metrics.total_file_count),
                 FLit(3, 10)) >= 0
    THEN AddStrength(ins, "High Test Coverage Ratio")
    ELSE ins

(* the test-coverage insight; the caller has excluded the zero divisor *)
RatioInsight(ins, metrics) ==
    IF metrics.test_file_count = 0
    THEN AddImprovement(ins, "Test Coverage - No test files found")
    ELSE IF FCmp(FDivSmall(FFromInt(metrics.test_file_count),
                           metrics.total_file_count),
                 FLit(3, 10)) > 0
    THEN AddStrength(ins, "High Test Coverage Ratio")
    ELSE ins

FrameworkInsight(ins, metrics) ==
    IF Len(metrics.test_frameworks) >= 2
    THEN AddStrength(ins, "Multiple Testing Frameworks")
    ELSE IF Len(metrics.test_frameworks) = 0
    THEN AddImprovement(ins, "Testing Framework Usage")
    ELSE ins

CommitInsight(ins, metrics) ==
    IF metrics.commit_count < 5
    THEN AddImprovement(ins, "Version Control Practices")
    ELSE IF metrics.commit_count > 50
    THEN AddStrength(ins, "Active Development History")
    ELSE ins

(* returns (strengths, improvements), or raises ZeroDivisionError when the *)
(* ratio is computed with total_file_count = 0                             *)
identify_strengths_and_improvements(metrics) ==
    IF metrics.test_file_count # 0 /\ metrics.total_file_count = 0
    THEN [raised |-> TRUE,
          exc |-> [type |-> "ZeroDivisionError",
                   message |-> <<"division by zero">>]]
    ELSE [raised |-> FALSE,
          value |->
            CommitInsight(
                FrameworkInsight(
                    RatioInsight(
                        CategoryInsights(
                            [strengths |-> <<>>, improvements |-> <<>>],
                            get_category_scores(metrics), CategoryNames),
                        metrics),
                    metrics),
                metrics)]

----------------------------------------------------------------------------
(* Summaries: generate_report_summary (metrics_calculator.py),             *)
(* get_evaluation_summary (metrics.py) and QAReportSummary.to_dict         *)
(* (types.py).  A dict is the function from its keys to its values.        *)

(* successful_results with a filter that only looks at metrics *)
successful_results_AnyMetrics(result_list) ==
    SelectSeq(result_list, LAMBDA r : r.metrics # None)

(* [r for r in results if r.is_successful] *)
successful_results(result_list) == SelectSeq(result_list, is_successful)

(* [r.metrics.<field> for r in successful_results] *)
FieldOf(successful, field) ==
    [k \in 1..Len(successful) |-> successful[k].metrics[1][field]]

(* [x for r in successful_results for x in r.metrics.<field>] *)
RECURSIVE Flatten(_, _)
Flatten(successful, field) ==
    IF successful = <<>> THEN <<>>
    ELSE Head(successful).metrics[1][field] \o Flatten(Tail(successful), field)

(* items.count(item) *)
Count(items, item) == Len(SelectSeq(items, LAMBDA x : x = item))

(* {item: items.count(item) for item in set(items)} *)
CountDict(items) ==
    [item \in {items[k] : k \in 1..Len(items)} |-> Count(items, item)]

(* set(items): the distinct items *)
ItemSet(items) == {items[n] : n \in 1..Len(items)}

(* every order in which the elements of S can be listed *)
RECURSIVE Orders(_)
Orders(S) ==
    IF S = {} THEN {<<>>}
    ELSE UNION {{<<x>> \o rest : rest \in Orders(S \ {x})} : x \in S}

(* what string hashing can make of the sets built from these three lists:  *)
(* the iteration order of a set of strings depends on the hash seed of the *)
(* interpreter, on the size of the table and on the order of insertion, so *)
(* each list can get any order of its distinct items, and equal lists get  *)
(* the same one                                                            *)
HashSeeds(strengths, improvements, frameworks) ==
    {[items \in {strengths, improvements, frameworks} |->
         IF items = strengths THEN a
         ELSE IF items = improvements THEN b
         ELSE c] :
        a \in Orders(ItemSet(strengths)),
        b \in Orders(ItemSet(improvements)),
        c \in Orders(ItemSet(frameworks))}

(* list(set(items)): the distinct items in the iteration order of the set, *)
(* which is fixed for the life of the interpreter                          *)
SetOrder(items) == hash_seed[items]

(* the (key, count) pairs of the counts dict, in dict order *)
PairsOf(keys, items) == [k \in 1..Len(keys) |-> <<keys[k], Count(items, keys[k])>>]

CountPairs(items) == PairsOf(SetOrder(items), items)

KeysOf(pairs) == [k \in 1..Len(pairs) |-> pairs[k][1]]

(* seq[:limit] *)
Take(seq, limit) == SubSeq(seq, 1, Min(limit, Len(seq)))

(* get_most_common without the sort *)
get_most_common_Unsorted(items, limit) ==
    IF items = <<>> THEN <<>>
    ELSE Take(KeysOf(CountPairs(items)), limit)

(* sorted(counts.keys(), key=lambda x: counts[x], reverse=True)[:limit]:   *)
(* a stable sort, so labels with equal counts keep the dict order          *)
get_most_common(items, limit) ==
    IF items = <<>> THEN <<>>
    ELSE Take(KeysOf(SortedDesc(CountPairs(items))), limit)

(* the default of get_most_common's limit parameter *)
MostCommonLimit == 5

(* ReportSummaryOf whose average divides by the number of all results *)
ReportSummaryOf_AverageOverAll(result_list, successful) ==
    IF successful = <<>>
    THEN [total_repositories        |-> Len(result_list),
          successful_evaluations    |-> 0,
          failed_evaluations        |-> Len(result_list),
          average_qa_maturity_score |-> FFromInt(0),
          qa_level_distribution     |-> <<>>,
          verdict_distribution      |-> <<>>,
          common_strengths          |-> <<>>,
          common_improvement_areas  |-> <<>>,
          top_frameworks            |-> <<>>]
    ELSE [total_repositories        |-> Len(result_list),
          successful_evaluations    |-> Len(successful),
          failed_evaluations        |-> Len(result_list) - Len(successful),
          average_qa_maturity_score |->
              FDivSmall(
                  FFromInt(SeqSum(FieldOf(successful, "overall_qa_maturity_score"))),
                  Len(result_list)),
          qa_level_distribution     |-> CountDict(FieldOf(successful, "qa_level")),
          verdict_distribution      |-> CountDict(FieldOf(successful, "final_verdict")),
          common_strengths          |->
              get_most_common(Flatten(successful, "strengths"), MostCommonLimit),
          common_improvement_areas  |->
              get_most_common(Flatten(successful, "improvement_areas"),
                              MostCommonLimit),
          top_frameworks            |->
              get_most_common(Flatten(successful, "test_frameworks"),
                              MostCommonLimit)]


(* the QAReportSummary built from the successful result_list *)
ReportSummaryOf(result_list, successful) ==
    IF successful = <<>>
    THEN [total_repositories        |-> Len(result_list),
          successful_evaluations    |-> 0,
          failed_evaluations        |-> Len(result_list),
          average_qa_maturity_score |-> FFromInt(0),
          qa_level_distribution     |-> <<>>,
          verdict_distribution      |-> <<>>,
          common_strengths          |-> <<>>,
          common_improvement_areas  |-> <<>>,
          top_frameworks            |-> <<>>]
    ELSE [total_repositories        |-> Len(result_list),
          successful_evaluations    |-> Len(successful),
          failed_evaluations        |-> Len(result_list) - Len(successful),
          average_qa_maturity_score |->
              FDivSmall(
                  FFromInt(SeqSum(FieldOf(successful, "overall_qa_maturity_score"))),
                  Len(successful)),
          qa_level_distribution     |-> CountDict(FieldOf(successful, "qa_level")),
          verdict_distribution      |-> CountDict(FieldOf(successful, "final_verdict")),
          common_strengths          |->
              get_most_common(Flatten(successful, "strengths"), MostCommonLimit),
          common_improvement_areas  |->
              get_most_common(Flatten(successful, "improvement_areas"),
                              MostCommonLimit),
          top_frameworks            |->
              get_most_common(Flatten(successful, "test_frameworks"),
                              MostCommonLimit)]

generate_report_summary(result_list) ==
    ReportSummaryOf(result_list, successful_results(result_list))

(* score_ranges whose Advanced bucket has no upper limit *)
score_ranges_Overlap(scores) ==
    [label \in {"Expert (85-100)", "Advanced (70-84)", "Intermediate (50-69)",
                "Beginner (0-49)"} |->
        Len(SelectSeq(scores,
            LAMBDA x :
                CASE label = "Expert (85-100)"      -> x >= 85
                  [] label = "Advanced (70-84)"     -> 70 <= x
                  [] label = "Intermediate (50-69)" -> 50 <= x /\ x < 70
                  [] label = "Beginner (0-49)"      -> x < 50))]

(* the score_ranges dict of get_evaluation_summary *)
score_ranges(scores) ==
    [label \in {"Expert (85-100)", "Advanced (70-84)", "Intermediate (50-69)",
                "Beginner (0-49)"} |->
        Len(SelectSeq(scores,
            LAMBDA x :
                CASE label = "Expert (85-100)"      -> x >= 85
                  [] label = "Advanced (70-84)"     -> 70 <= x /\ x < 85
                  [] label = "Intermediate (50-69)" -> 50 <= x /\ x < 70
                  [] label = "Beginner (0-49)"      -> x < 50))]

(* the dict get_evaluation_summary returns for a non-empty list *)
EvaluationSummaryOf(result_list, successful) ==
    [total_repositories     |-> Len(result_list),
     successful_evaluations |-> Len(successful),
     failed_evaluations     |-> Len(result_list) - Len(successful),
     success_rate           |-> FDivSmall(FFromInt(Len(successful)), Len(result_list)),
     average_score          |->
         IF successful # <<>>
         THEN FDivSmall(
                  FFromInt(SeqSum(FieldOf(successful, "overall_qa_maturity_score"))),
                  Len(successful))
         ELSE FFromInt(0),
     score_distribution     |->
         IF successful # <<>>
         THEN score_ranges(FieldOf(successful, "overall_qa_maturity_score"))
         ELSE <<>>,
     verdict_distribution   |->
         IF successful # <<>>
         THEN CountDict(FieldOf(successful, "final_verdict"))
         ELSE <<>>]

get_evaluation_summary(result_list) ==
    IF result_list = <<>>
    THEN [total_repositories     |-> 0,
          successful_evaluations |-> 0,
          failed_evaluations     |-> 0,
          success_rate           |-> FFromInt(0),
          average_score          |-> FFromInt(0),
          score_distribution     |-> <<>>,
          verdict_distribution   |-> <<>>]
    ELSE EvaluationSummaryOf(result_list, successful_results(result_list))

(* to_dict without the guard on total_repositories *)
to_dict_Unguarded(summary) ==
    IF summary.total_repositories = 0
    THEN [raised |-> TRUE,
          exc |-> [type |-> "ZeroDivisionError", message |-> <<"division by zero">>]]
    ELSE [total_repositories        |-> summary.total_repositories,
          successful_evaluations    |-> summary.successful_evaluations,
          failed_evaluations        |-> summary.failed_evaluations,
          success_rate              |->
              [float |-> FDivSmall(FFromInt(summary.successful_evaluations),
                                   summary.total_repositories)],
          average_qa_maturity_score |-> summary.average_qa_maturity_score,
          qa_level_distribution     |-> summary.qa_level_distribution,
          verdict_distribution      |-> summary.verdict_distribution,
          common_strengths          |-> summary.common_strengths,
          common_improvement_areas  |-> summary.common_improvement_areas,
          top_frameworks            |-> summary.top_frameworks]

(* QAReportSummary.to_dict; success_rate is a float when the division is   *)
(* made and the int 0 otherwise                                            *)
to_dict(summary) ==
    [total_repositories        |-> summary.total_repositories,
     successful_evaluations    |-> summary.successful_evaluations,
     failed_evaluations        |-> summary.failed_evaluations,
     success_rate              |->
         IF summary.total_repositories > 0
         THEN [float |-> FDivSmall(FFromInt(summary.successful_evaluations),
                                   summary.total_repositories)]
         ELSE [int |-> 0],
     average_qa_maturity_score |-> summary.average_qa_maturity_score,
     qa_level_distribution     |-> summary.qa_level_distribution,
     verdict_distribution      |-> summary.verdict_distribution,
     common_strengths          |-> summary.common_strengths,
     common_improvement_areas  |-> summary.common_improvement_areas,
     top_frameworks            |-> summary.top_frameworks]

----------------------------------------------------------------------------
(* The scoring functions applied to bounded inputs.                        *)

(* largest sub-score an input carries *)
MaxSub == 10

(* a category metrics object whose five sub-scores add up to total *)
Row(total) ==
    [k \in 1..SubScoreCount |->
        (total \div SubScoreCount)
        + (IF k <= total % SubScoreCount THEN 1 ELSE 0)]

AutomationSums == {0, 19, 20, 29, 30, 50, SubScoreCount * MaxSub}

SkillsSums == {0, 1, 50, SubScoreCount * MaxSub}

ProcessSums == {0, 7, 50, SubScoreCount * MaxSub}

PipelineSums == {0, 50, SubScoreCount * MaxSub}

StructureSums == {19, 29, 30}

FileCounts == {2, 3, 5}

CommitCounts == {4, 5, 10}

ScoreInputs == {-1, 0, 40, 49, 50, 69, 70, 75, 84, 85, 100}

(* a QAMetrics object as analyze_full_qa_repository constructs it, the     *)
(* assessment fields still at their placeholders                           *)
MetricsInput(ta, ci, qp, ts, rs, files, commits) ==
    [commit_count              |-> commits,
     primary_language          |-> "python",
     test_file_count           |-> files,
     total_file_count          |-> 20,
     test_frameworks           |-> <<"pytest">>,
     test_automation           |-> Row(ta),
     ci_pipeline               |-> Row(ci),
     quality_process           |-> Row(qp),
     technical_skills          |-> Row(ts),
     repository_structure      |-> Row(rs),
     overall_qa_maturity_score |-> 0,
     qa_level                  |-> "",
     strengths                 |-> <<>>,
     improvement_areas         |-> <<>>,
     final_verdict             |-> "",
     final_verdict_reason      |-> <<>>]

(* inputs that vary the four weighted categories, and inputs that vary     *)
(* what the requirement checks read                                        *)
MetricsInputs ==
    {MetricsInput(ta, ci, qp, ts, 30, 5, 10) :
        ta \in AutomationSums, ci \in PipelineSums,
        qp \in ProcessSums, ts \in SkillsSums}
    \cup
    {MetricsInput(ta, 30, 30, 30, rs, files, commits) :
        ta \in AutomationSums, rs \in StructureSums,
        files \in FileCounts, commits \in CommitCounts}

IdleBatch ==
    /\ repo_urls = <<>>
    /\ continue_on_error = TRUE
    /\ keep_clone = FALSE
    /\ github_token = None
    /\ i = 0
    /\ pc = "idle"
    /\ results = <<>>
    /\ locals = <<>>
    /\ tmp_dirs = {}
    /\ world = <<>>
    /\ log = <<>>

InitScoring ==
    /\ arg_metrics \in MetricsInputs
    /\ arg_score \in ScoreInputs
    /\ call = "none"
    /\ ret = <<>>
    /\ hash_seed = <<>>
    /\ prev = <<>>
    /\ IdleBatch

CallScore ==
    /\ call' = "calculate_overall_qa_score"
    /\ ret' = calculate_overall_qa_score(arg_metrics)
    /\ UNCHANGED <<arg_metrics, arg_score, hash_seed, prev, batch_vars>>

CallLevel ==
    /\ call' = "determine_qa_level"
    /\ ret' = determine_qa_level(arg_score)
    /\ UNCHANGED <<arg_metrics, arg_score, hash_seed, prev, batch_vars>>

CallVerdict ==
    /\ call' = "determine_verdict"
    /\ ret' = determine_verdict(arg_metrics, arg_score)
    /\ UNCHANGED <<arg_metrics, arg_score, hash_seed, prev, batch_vars>>

NextScoring == CallScore \/ CallLevel \/ CallVerdict

SpecScoring == InitScoring /\ [][NextScoring]_vars

----------------------------------------------------------------------------
(* identify_strengths_and_improvements applied to bounded inputs.          *)

(* category sums on both sides of the thresholds 5.0 and 7.5 *)
InsightSums == {24, 25, 37, 38}

(* (test_file_count, total_file_count) *)
FileRatios ==
    {<<0, 0>>, <<3, 0>>, <<0, 20>>, <<3, 10>>, <<6, 20>>, <<7, 20>>, <<4, 10>>}

FrameworkLists == {<<>>, <<"pytest">>, <<"pytest", "unittest">>}

InsightCommitCounts == {4, 5, 50, 51}

InsightInput(ta, ci, qp, ts, rs, files, frameworks, commits) ==
    [MetricsInput(ta, ci, qp, ts, rs, files[1], commits) EXCEPT
        !.total_file_count = files[2],
        !.test_frameworks = frameworks]

InsightInputs ==
    {InsightInput(ta, ci, qp, ts, rs, <<6, 20>>, <<"pytest">>, 10) :
        ta \in InsightSums, ci \in InsightSums, qp \in InsightSums,
        ts \in InsightSums, rs \in InsightSums}
    \cup
    {InsightInput(25, 25, 25, 25, 25, files, frameworks, commits) :
        files \in FileRatios, frameworks \in FrameworkLists,
        commits \in InsightCommitCounts}

InitInsights ==
    /\ arg_metrics \in InsightInputs
    /\ arg_score = 0
    /\ call = "none"
    /\ ret = <<>>
    /\ hash_seed = <<>>
    /\ prev = <<>>
    /\ IdleBatch

CallInsights ==
    /\ call' = "identify_strengths_and_improvements"
    /\ ret' = identify_strengths_and_improvements(arg_metrics)
    /\ UNCHANGED <<arg_metrics, arg_score, hash_seed, prev, batch_vars>>

NextInsights == CallInsights

SpecInsights == InitInsights /\ [][NextInsights]_vars

----------------------------------------------------------------------------
(* qa_analysis.py: the category analyses.                                  *)

(* types.py: the fields of the five category dataclasses, in declaration   *)
(* order                                                                   *)
DataclassFields(class) ==
    CASE class = "TestAutomationMetrics" ->
           <<"test_coverage_score", "test_organization_score",
             "framework_usage_score", "assertion_quality_score",
             "test_data_management_score">>
      [] class = "CIPipelineMetrics" ->
           <<"pipeline_configuration_score",
             "automated_testing_integration_score",
             "deployment_automation_score", "pipeline_efficiency_score",
             "environment_management_score">>
      [] class = "QualityProcessMetrics" ->
           <<"testing_strategy_score", "bug_tracking_score",
             "code_review_process_score", "documentation_quality_score",
             "collaboration_score">>
      [] class = "TechnicalSkillsMetrics" ->
           <<"test_design_patterns_score", "api_testing_score",
             "ui_testing_score", "performance_testing_score",
             "security_testing_score">>
      [] class = "RepositoryStructureMetrics" ->
           <<"project_structure_score", "test_structure_score",
             "configuration_management_score", "dependency_management_score",
             "version_control_practices_score">>

(* the names of the missing parameters as the interpreter lists them:      *)
(* 'a' / 'a' and 'b' / 'a', 'b', and 'c'                                   *)
RECURSIVE NameList(_)
NameList(names) ==
    IF Len(names) = 1 THEN <<"'", names[1], "'">>
    ELSE IF Len(names) = 2
    THEN <<"'", names[1], "'", " and ", "'", names[2], "'">>
    ELSE IF Len(names) = 3
    THEN <<"'", names[1], "'", ", ", "'", names[2], "'", ", and ",
           "'", names[3], "'">>
    ELSE <<"'", names[1], "'", ", ">> \o NameList(Tail(names))

(* str(e) of the TypeError a call raises that lacks these required         *)
(* parameters (at least one)                                               *)
MissingArguments(class, names) ==
    <<class, ".__init__() missing ">> \o Str(Len(names))
    \o <<IF Len(names) = 1 THEN " required positional argument: "
                             ELSE " required positional arguments: ">>
    \o NameList(names)

(* a dataclass constructor called with positional arguments: every field   *)
(* is required, so any other number of arguments raises TypeError          *)
DataclassNew(class, field_count, args) ==
    IF Len(args) = field_count
    THEN [raised |-> FALSE, value |-> args]
    ELSE IF Len(args) < field_count
    THEN [raised |-> TRUE,
          exc |-> [type |-> "TypeError",
                   message |-> MissingArguments(class,
                                   SubSeq(DataclassFields(class),
                                          Len(args) + 1, field_count))]]
    ELSE [raised |-> TRUE,
          exc |-> [type |-> "TypeError",
                   message |-> <<class, ".__init__() takes ">>
                               \o Str(field_count + 1)
                               \o <<" positional arguments but ">>
                               \o Str(Len(args) + 1)
                               \o <<" were given">>]]

(* result.get(field, 0) for the k-th field of the category *)
ResultGet(payload, k) == IF k \in DOMAIN payload THEN payload[k] ELSE 0

(* the shape shared by the four analyze_* functions: call the AI, parse    *)
(* its answer and construct the metrics object from the first `passed`     *)
(* fields; on any exception construct it from `passed` zeros instead       *)
AnalyzeCategory(class, response, passed) ==
    LET attempt ==
            IF response.kind = "object"
            THEN DataclassNew(class, SubScoreCount,
                              [k \in 1..passed |-> ResultGet(response.payload, k)])
            ELSE [raised |-> TRUE, exc |-> [type |-> response.kind,
                                            message |-> <<response.kind>>]]
    IN  IF attempt.raised
        THEN DataclassNew(class, SubScoreCount, [k \in 1..passed |-> 0])
        ELSE attempt

analyze_test_automation(response) ==
    AnalyzeCategory("TestAutomationMetrics", response, 5)

analyze_ci_pipeline(response) ==
    AnalyzeCategory("CIPipelineMetrics", response, 5)

analyze_quality_process(response) ==
    AnalyzeCategory("QualityProcessMetrics", response, 5)

analyze_technical_skills(response) ==
    AnalyzeCategory("TechnicalSkillsMetrics", response, 3)

(* the fields of the QAMetrics dataclass in declaration order, all of them *)
(* required                                                                *)
QAMetricsFields ==
    <<"commit_count", "primary_language", "test_file_count",
      "total_file_count", "test_frameworks", "test_automation", "ci_pipeline",
      "quality_process", "technical_skills", "repository_structure",
      "overall_qa_maturity_score", "qa_level", "strengths",
      "improvement_areas", "final_verdict", "final_verdict_reason">>

(* the QAMetrics constructor called with keyword arguments, each of which  *)
(* names a field; the fields that no argument names are missing            *)
QAMetricsNew(kwargs) ==
    LET missing == SelectSeq(QAMetricsFields,
                             LAMBDA field : field \notin DOMAIN kwargs)
    IN  IF missing = <<>>
        THEN [raised |-> FALSE, value |-> kwargs]
        ELSE [raised |-> TRUE,
              exc |-> [type |-> "TypeError",
                       message |-> MissingArguments("QAMetrics", missing)]]

(* analyze_full_qa_repository after the QAMetrics object is constructed:   *)
(* calculate the overall assessment and store it in the object             *)
AssessWith(metrics, score, insights) ==
    IF insights.raised THEN insights
    ELSE [raised |-> FALSE,
          value  |-> [metrics EXCEPT
                        !.overall_qa_maturity_score = score,
                        !.qa_level = determine_qa_level(score),
                        !.final_verdict = determine_verdict(metrics, score)[1],
                        !.final_verdict_reason = determine_verdict(metrics, score)[2],
                        !.strengths = insights.value.strengths,
                        !.improvement_areas = insights.value.improvements]]

Assess(metrics) ==
    AssessWith(metrics, calculate_overall_qa_score(metrics),
               identify_strengths_and_improvements(metrics))

(* AssessRepository with dataclasses whose fields default to 0: the       *)
(* technical-skills fields that are not passed and the omitted             *)
(* repository_structure are zeros, and no constructor raises               *)
AssessRepository_Defaults(repo_structure, commit_count, frameworks, test_automation, ci_pipeline, quality_process, response) ==
    Assess([commit_count              |-> commit_count,
            primary_language          |-> repo_structure.primary_language,
            test_file_count           |-> Len(repo_structure.test_files),
            total_file_count          |-> repo_structure.total_files,
            test_frameworks           |-> frameworks,
            test_automation           |-> test_automation,
            ci_pipeline               |-> ci_pipeline,
            quality_process           |-> quality_process,
            technical_skills          |->
                [k \in 1..SubScoreCount |->
                    IF response.kind = "object" /\ k <= 3
                    THEN ResultGet(response.payload, k) ELSE 0],
            repository_structure      |-> [k \in 1..SubScoreCount |-> 0],
            overall_qa_maturity_score |-> 0,
            qa_level                  |-> "",
            strengths                 |-> <<>>,
            improvement_areas         |-> <<>>,
            final_verdict             |-> "",
            final_verdict_reason      |-> <<>>])

(* analyze_full_qa_repository from the technical-skills analysis to its    *)
(* return: construct the QAMetrics object from the scan result, the commit *)
(* count and the category metrics, then fill in the assessment; frameworks *)
(* is list(repo_structure["test_frameworks"]), the set in the order the    *)
(* interpreter iterates it                                                 *)
AssessRepository(repo_structure, commit_count, frameworks, test_automation, ci_pipeline, quality_process, response) ==
    LET technical_skills == analyze_technical_skills(response)
    IN  IF technical_skills.raised THEN technical_skills
        ELSE
        LET built ==
                QAMetricsNew(
                    [commit_count              |-> commit_count,
                     primary_language          |-> repo_structure.primary_language,
                     test_file_count           |-> Len(repo_structure.test_files),
                     total_file_count          |-> repo_structure.total_files,
                     test_frameworks           |-> frameworks,
                     test_automation           |-> test_automation,
                     ci_pipeline               |-> ci_pipeline,
                     quality_process           |-> quality_process,
                     technical_skills          |-> technical_skills.value,
                     overall_qa_maturity_score |-> 0,
                     qa_level                  |-> "",
                     strengths                 |-> <<>>,
                     improvement_areas         |-> <<>>,
                     final_verdict             |-> "",
                     final_verdict_reason      |-> <<>>])
        IN  IF built.raised THEN built ELSE Assess(built.value)

----------------------------------------------------------------------------
(* The summary functions applied to bounded result lists.                  *)

(* longest result list that is summarised *)
MaxResults == 3

(* the metrics of three evaluated repositories: an expert one that passes, *)
(* a mixed one, a weak one that fails; their label lists are short and     *)
(* share labels                                                            *)
AssessedMetrics ==
    <<Assess(InsightInput(50, 50, 37, 37, 30, <<6, 20>>, <<"pytest">>, 10)).value,
      Assess(InsightInput(38, 24, 30, 30, 30, <<6, 20>>, <<"pytest">>, 10)).value,
      Assess(InsightInput(0, 0, 30, 30, 30, <<6, 20>>, <<"unittest">>, 10)).value>>

(* the results a list can hold: the three successes, a failure, an entry   *)
(* with both metrics and an error message, an entry with neither           *)
ResultPool ==
    {QAResult("https://github.com/org/a", Some(AssessedMetrics[k]), None) :
        k \in 1..Len(AssessedMetrics)}
    \cup
    {QAResult("https://github.com/org/b", None, Some(<<"git clone failed">>)),
     QAResult("https://github.com/org/b", Some(AssessedMetrics[2]),
              Some(<<"git clone failed">>)),
     QAResult("https://github.com/org/b", None, None)}

(* a repository with every category at 10 and a long history: more equally *)
(* frequent strengths than get_most_common keeps                           *)
StrongResult ==
    QAResult("https://github.com/org/c",
             Some(Assess(InsightInput(50, 50, 50, 50, 50, <<6, 20>>,
                                      <<"pytest">>, 51)).value),
             None)

(* every list of up to MaxResults results of the pool, and the strong      *)
(* repository alone and next to the mixed one                              *)
ResultLists ==
    UNION {[1..n -> ResultPool] : n \in 0..MaxResults}
    \cup {<<StrongResult>>,
          <<StrongResult,
            QAResult("https://github.com/org/a", Some(AssessedMetrics[2]), None)>>}

InitSummary ==
    /\ results \in ResultLists
    /\ hash_seed \in HashSeeds(
                        Flatten(successful_results(results), "strengths"),
                        Flatten(successful_results(results), "improvement_areas"),
                        Flatten(successful_results(results), "test_frameworks"))
    /\ arg_metrics = <<>>
    /\ arg_score = 0
    /\ call = "none"
    /\ ret = <<>>
    /\ prev = <<>>
    /\ repo_urls = <<>>
    /\ continue_on_error = TRUE
    /\ keep_clone = FALSE
    /\ github_token = None
    /\ i = 0
    /\ pc = "idle"
    /\ locals = <<>>
    /\ tmp_dirs = {}
    /\ world = <<>>
    /\ log = <<>>

(* what a call leaves behind for the next one to be compared with *)
Previous == <<[call |-> call, ret |-> ret, results |-> results]>>

CallEvaluationSummary ==
    /\ call' = "get_evaluation_summary"
    /\ ret' = get_evaluation_summary(results)
    /\ prev' = Previous
    /\ UNCHANGED <<arg_metrics, arg_score, hash_seed, batch_vars>>

(* generate_report_summary that filters the caller's list in place *)
CallReportSummary_Consuming ==
    /\ call' = "generate_report_summary"
    /\ ret' = generate_report_summary(results)
    /\ prev' = Previous
    /\ results' = successful_results(results)
    /\ UNCHANGED <<arg_metrics, arg_score, hash_seed, repo_urls,
                   continue_on_error, keep_clone, github_token, i, pc, locals, tmp_dirs,
                   world, log>>

CallReportSummary ==
    /\ call' = "generate_report_summary"
    /\ ret' = generate_report_summary(results)
    /\ prev' = Previous
    /\ UNCHANGED <<arg_metrics, arg_score, hash_seed, batch_vars>>

(* summary.to_dict() on the summary generate_report_summary returned *)
CallToDict ==
    /\ call = "generate_report_summary"
    /\ call' = "QAReportSummary.to_dict"
    /\ ret' = to_dict(ret)
    /\ prev' = Previous
    /\ UNCHANGED <<arg_metrics, arg_score, hash_seed, batch_vars>>

NextSummary == CallEvaluationSummary \/ CallReportSummary \/ CallToDict

SpecSummary == InitSummary /\ [][NextSummary]_vars

----------------------------------------------------------------------------
(* The summary functions applied to one result list by several interpreter *)
(* processes, one after the other.                                         *)

(* a new interpreter process takes over with the same result list: the     *)
(* hash of a str is salted per process (PYTHONHASHSEED), so every set of   *)
(* labels is iterated in an order of its own in the new process            *)
StartInterpreter ==
    /\ hash_seed' \in HashSeeds(
                         Flatten(successful_results(results), "strengths"),
                         Flatten(successful_results(results), "improvement_areas"),
                         Flatten(successful_results(results), "test_frameworks"))
    /\ UNCHANGED <<arg_metrics, arg_score, call, ret, prev, batch_vars>>

(* the lists of results of the pool *)
InitRerun ==
    /\ InitSummary
    /\ \A k \in 1..Len(results) : results[k] # StrongResult

NextRerun == NextSummary \/ StartInterpreter

SpecRerun == InitRerun /\ [][NextRerun]_vars

----------------------------------------------------------------------------
(* metrics.py: batch_compute_qa_metrics with compute_qa_metrics and        *)
(* analyze_full_qa_repository inlined, one action per step.                *)

(* longest URL list of a batch *)
MaxUrls == 2

(* a URL is the sequence of its characters; the texts of this model are    *)
(* made of printable ASCII characters other than "]"                       *)
Urls ==
    {<<"h", "t", "t", "p", "s", ":", "/", "/", "g", "i", "t", "h", "u",
       "b", ".", "c", "o", "m", "/", "o", "r", "g", "/", "a">>,
     <<"n", "o", "t", "-", "a", "-", "u", "r", "l">>}

UrlLists == UNION {[1..n -> Urls] : n \in 0..MaxUrls}

(* what the AI collaborator can answer: a failed call, text that is not    *)
(* JSON, a JSON object with every field, a JSON object lacking fields, a   *)
(* JSON object with values outside 0..10                                   *)
AIResponses ==
    {[kind |-> "api_error"],
     [kind |-> "malformed_json"],
     [kind |-> "object", payload |-> <<8, 8, 8, 8, 8>>],
     [kind |-> "object", payload |-> <<7, 7>>],
     [kind |-> "object", payload |-> <<15, -3, 8, 8, 8>>]}

(* git_utils.py: the repository scan.  A clone is the sequence of the      *)
(* entries repo_path.rglob("*") yields, each with its name and whether it  *)
(* is a file; a name is the sequence of its characters.                    *)

(* the lower-case form of one character *)
LowerChar(c) ==
    CASE c = "A" -> "a"
      [] c = "B" -> "b"
      [] c = "C" -> "c"
      [] c = "D" -> "d"
      [] c = "E" -> "e"
      [] c = "F" -> "f"
      [] c = "G" -> "g"
      [] c = "H" -> "h"
      [] c = "I" -> "i"
      [] c = "J" -> "j"
      [] c = "K" -> "k"
      [] c = "L" -> "l"
      [] c = "M" -> "m"
      [] c = "N" -> "n"
      [] c = "O" -> "o"
      [] c = "P" -> "p"
      [] c = "Q" -> "q"
      [] c = "R" -> "r"
      [] c = "S" -> "s"
      [] c = "T" -> "t"
      [] c = "U" -> "u"
      [] c = "V" -> "v"
      [] c = "W" -> "w"
      [] c = "X" -> "x"
      [] c = "Y" -> "y"
      [] c = "Z" -> "z"
      [] OTHER -> c

(* str.lower() *)
Lower(text) == [k \in 1..Len(text) |-> LowerChar(text[k])]

(* the alternatives of TEST_FILE_REGEX: test, spec, __tests__, .test.,     *)
(* .spec.                                                                  *)
TEST_FILE_REGEX ==
    {<<"t", "e", "s", "t">>, <<"s", "p", "e", "c">>,
     <<"_", "_", "t", "e", "s", "t", "s", "_", "_">>,
     <<".", "t", "e", "s", "t", ".">>,
     <<".", "s", "p", "e", "c", ".">>}

(* part in text: part occurs in text as a run of consecutive characters *)
Occurs(text, part) ==
    \E k \in 1..(Len(text) - Len(part) + 1) :
        SubSeq(text, k, k + Len(part) - 1) = part

(* TEST_FILE_REGEX.search(name) with re.IGNORECASE: some alternative       *)
(* occurs in the name, letters compared without case                       *)
RegexSearch(name) == \E alt \in TEST_FILE_REGEX : Occurs(Lower(name), alt)

IsTestEntry(entry) == entry.is_file /\ RegexSearch(entry.name)

IsFileEntry(entry) == entry.is_file

detect_test_files(tree) == SelectSeq(tree, IsTestEntry)

(* "total_files": len([f for f in repo_path.rglob("*") if f.is_file()]) *)
total_files(tree) == Len(SelectSeq(tree, IsFileEntry))

File(name) == [name |-> name, is_file |-> TRUE]

Directory(name) == [name |-> name, is_file |-> FALSE]

(* the clones that are scanned: a project with tests (HEAD, README.md,     *)
(* app.py, tests/, test_app.py, inspector.py, setup.py), a project without *)
(* test files whose directories are named like tests (HEAD, tests/,        *)
(* spec/), a project most of whose files are test files (HEAD,             *)
(* TestUtil.java, App.spec.ts, __tests__); with the commit count, the      *)
(* language and the set of frameworks the scan finds                       *)
ScanInputs ==
    {[tree |-> <<File(<<"H", "E", "A", "D">>),
                 File(<<"R", "E", "A", "D", "M", "E", ".", "m", "d">>),
                 File(<<"a", "p", "p", ".", "p", "y">>),
                 Directory(<<"t", "e", "s", "t", "s">>),
                 File(<<"t", "e", "s", "t", "_", "a", "p", "p", ".", "p",
                        "y">>),
                 File(<<"i", "n", "s", "p", "e", "c", "t", "o", "r", ".",
                        "p", "y">>),
                 File(<<"s", "e", "t", "u", "p", ".", "p", "y">>)>>,
      commit_count |-> 20, primary_language |-> "python",
      test_frameworks |-> {"pytest"}],
     [tree |-> <<File(<<"H", "E", "A", "D">>),
                 Directory(<<"t", "e", "s", "t", "s">>),
                 Directory(<<"s", "p", "e", "c">>)>>,
      commit_count |-> 1, primary_language |-> "unknown",
      test_frameworks |-> {}],
     [tree |-> <<File(<<"H", "E", "A", "D">>),
                 File(<<"T", "e", "s", "t", "U", "t", "i", "l", ".", "j",
                        "a", "v", "a">>),
                 File(<<"A", "p", "p", ".", "s", "p", "e", "c", ".", "t",
                        "s">>),
                 File(<<"_", "_", "t", "e", "s", "t", "s", "_", "_">>)>>,
      commit_count |-> 7, primary_language |-> "java",
      test_frameworks |-> {"junit", "mockito"}]}

(* get_repository_structure: the entries of the dict that                  *)
(* analyze_full_qa_repository reads; test_frameworks is a set              *)
get_repository_structure(clone) ==
    [primary_language |-> clone.primary_language,
     test_files       |-> detect_test_files(clone.tree),
     test_frameworks  |-> clone.test_frameworks,
     total_files      |-> total_files(clone.tree)]

Exception(type, message) == [type |-> type, message |-> <<message>>]

(* git_utils.py: validate_repo_url.                                        *)

(* urllib.parse.scheme_chars: the letters, the digits and + - .            *)
scheme_chars ==
    {"a", "b", "c", "d", "e", "f", "g", "h", "i", "j", "k", "l",
     "m", "n", "o", "p", "q", "r", "s", "t", "u", "v", "w", "x",
     "y", "z"}
    \cup
    {"A", "B", "C", "D", "E", "F", "G", "H", "I", "J", "K", "L",
     "M", "N", "O", "P", "Q", "R", "S", "T", "U", "V", "W", "X",
     "Y", "Z"}
    \cup
    {"0", "1", "2", "3", "4", "5", "6", "7", "8", "9", "+", "-", "."}

(* url.lstrip(): the text without its leading spaces *)
RECURSIVE LStrip(_)
LStrip(text) ==
    IF text # <<>> /\ Head(text) = " " THEN LStrip(Tail(text)) ELSE text

(* the position of the colon that ends the scheme of text: the first       *)
(* colon, when it is not the first character, the text starts with a       *)
(* letter and only scheme characters precede the colon; 0 when the text    *)
(* has no scheme                                                           *)
SchemeEnd(text) ==
    IF /\ text # <<>>
       /\ LowerChar(text[1]) \in {"a", "b", "c", "d", "e", "f", "g", "h", "i", "j", "k", "l",
                                  "m", "n", "o", "p", "q", "r", "s", "t", "u", "v", "w", "x",
                                  "y", "z"}
       /\ \E k \in 2..Len(text) :
             text[k] = ":" /\ \A n \in 1..(k - 1) : text[n] \in scheme_chars
    THEN CHOOSE k \in 2..Len(text) :
             text[k] = ":" /\ \A n \in 1..(k - 1) : text[n] \in scheme_chars
    ELSE 0

(* the network location of what follows the scheme: after a leading "//",  *)
(* the text up to the first "/", "?" or "#", else empty                    *)
NetlocOf(rest) ==
    IF Len(rest) >= 2 /\ rest[1] = "/" /\ rest[2] = "/"
    THEN SubSeq(rest, 3,
                CHOOSE last \in 2..Len(rest) :
                    /\ \A k \in 3..last : rest[k] \notin {"/", "?", "#"}
                    /\ last = Len(rest) \/ rest[last + 1] \in {"/", "?", "#"})
    ELSE <<>>

(* urlsplit of a text without leading spaces: the scheme in lower case and *)
(* the network location; a network location with "[" and no "]" raises    *)
(* ValueError                                                              *)
urlsplit(text) ==
    IF Occurs(NetlocOf(SubSeq(text, SchemeEnd(text) + 1, Len(text))), <<"[">>)
       # Occurs(NetlocOf(SubSeq(text, SchemeEnd(text) + 1, Len(text))), <<"]">>)
    THEN [raised |-> TRUE,
          exc |-> [type |-> "ValueError", message |-> <<"Invalid IPv6 URL">>]]
    ELSE [raised |-> FALSE,
          scheme |-> Lower(SubSeq(text, 1, SchemeEnd(text) - 1)),
          netloc |-> NetlocOf(SubSeq(text, SchemeEnd(text) + 1, Len(text)))]

(* urlparse(url) as far as validate_repo_url reads it *)
urlparse(url) == urlsplit(LStrip(url))

(* what requests.get(api_url) can do: answer with a status code or raise   *)
(* requests.RequestException                                               *)
ApiAnswers ==
    {[kind |-> "response", status_code |-> code] :
        code \in {200, 401, 403, 404, 500}}
    \cup {[kind |-> "RequestException"]}

(* validate_repo_url: (is_valid, error); an exception of urlparse counts   *)
(* as an invalid format, the API is asked only about URLs that contain     *)
(* "github.com", and a token counts when it is neither None nor empty      *)
validate_repo_url(url, token, answer) ==
    IF urlparse(url).raised THEN <<FALSE, <<"Invalid URL format">>>>
    ELSE IF urlparse(url).scheme = <<>> \/ urlparse(url).netloc = <<>>
    THEN <<FALSE, <<"Invalid URL format">>>>
    ELSE IF ~Occurs(url, <<"g", "i", "t", "h", "u", "b", ".", "c", "o", "m">>)
    THEN <<TRUE, <<>>>>
    ELSE IF answer.kind = "RequestException" THEN <<TRUE, <<>>>>
    ELSE IF answer.status_code = 404
    THEN <<FALSE, <<"Repository not found (404)">>>>
    ELSE IF answer.status_code = 403
    THEN (IF token # None /\ token[1] # ""
          THEN <<FALSE,
                 <<"Access forbidden - check token permissions or rate limit">>>>
          ELSE <<TRUE, <<>>>>)
    ELSE IF answer.status_code = 401
    THEN <<FALSE, <<"Unauthorized - invalid or expired token">>>>
    ELSE IF answer.status_code # 200
    THEN <<FALSE, <<"Repository check failed with status code ">>
                  \o Str(answer.status_code)>>
    ELSE <<TRUE, <<>>>>

(* the objects compute_qa_metrics and analyze_full_qa_repository hold      *)
FreshLocals ==
    [repo_path       |-> None,
     repo_structure  |-> None,
     commit_count    |-> None,
     test_automation |-> None,
     ci_pipeline     |-> None,
     quality_process |-> None,
     metrics         |-> None,
     exc             |-> None]

FreshWorld ==
    [started |-> FALSE, all_ok |-> FALSE, ai_failure |-> None, raised |-> FALSE]

(* the record of one AI answer: whether everything so far succeeded with   *)
(* every requested field present, and the first category whose AI call     *)
(* failed or answered something that is not a JSON object                  *)
Observe(w, category, response, requested) ==
    [w EXCEPT
        !.all_ok = @ /\ response.kind = "object"
                     /\ 1..requested \subseteq DOMAIN response.payload,
        !.ai_failure = IF @ = None /\ response.kind # "object"
                       THEN Some(category)
                       ELSE @]

(* record_result where both exception handlers of the loop body append a   *)
(* failure                                                                 *)
record_result_twice(res, url, loc) ==
    IF loc.exc = None
    THEN Append(res, QAResult(url, loc.metrics, None))
    ELSE Append(Append(res, QAResult(url, None, Some(loc.exc[1].message))),
                QAResult(url, None, Some(loc.exc[1].message)))

(* the results list after the evaluation of url ended with these locals,   *)
(* when the batch goes on: a success, or a failure carrying str(e)         *)
record_result(res, url, loc) ==
    IF loc.exc = None
    THEN Append(res, QAResult(url, loc.metrics, None))
    ELSE Append(res, QAResult(url, None, Some(loc.exc[1].message)))

Init ==
    /\ repo_urls \in UrlLists
    /\ continue_on_error \in BOOLEAN
    /\ keep_clone \in BOOLEAN
    /\ github_token \in {None, Some(""), Some("token")}
    /\ i = 1
    /\ pc = "loop"
    /\ results = <<>>
    /\ locals = FreshLocals
    /\ tmp_dirs = {}
    /\ world = FreshWorld
    /\ log = <<>>
    /\ arg_metrics = <<>>
    /\ arg_score = 0
    /\ hash_seed = <<>>
    /\ prev = <<>>
    /\ call = "none"
    /\ ret = <<>>

Raise(e) ==
    /\ locals' = [locals EXCEPT !.exc = Some(e)]
    /\ pc' = "finally"

(* for i, repo_url in enumerate(repo_urls, 1): the next URL *)
StartRepository ==
    /\ pc = "loop"
    /\ i <= Len(repo_urls)
    /\ pc' = "clone"
    /\ locals' = FreshLocals
    /\ world' = FreshWorld
    /\ UNCHANGED <<repo_urls, continue_on_error, keep_clone, github_token, i, results,
                   tmp_dirs, log, scoring_vars>>

(* the loop is exhausted: return results *)
BatchReturn ==
    /\ pc = "loop"
    /\ i > Len(repo_urls)
    /\ pc' = "returned"
    /\ UNCHANGED <<repo_urls, continue_on_error, keep_clone, github_token, i, results,
                   locals, tmp_dirs, world, log, scoring_vars>>

(* clone_repo: URL validation, mkdtemp, Repo.clone_from *)
CloneRepo ==
    /\ pc = "clone"
    /\ \E answer \in ApiAnswers, outcome \in {"git_error", "other_error", "ok"} :
          LET checked == validate_repo_url(repo_urls[i], github_token, answer)
          IN  IF ~checked[1]
              THEN /\ Raise([type    |-> "ValueError",
                             message |-> <<"Repository validation failed: ">>
                                         \o checked[2]])
                   /\ world' = [world EXCEPT !.started = TRUE]
                   /\ UNCHANGED tmp_dirs
              ELSE
              CASE outcome = "git_error" ->
                     /\ Raise(Exception("GitCommandError", "git clone failed"))
                     /\ world' = [world EXCEPT !.started = TRUE]
                     /\ UNCHANGED tmp_dirs
                [] outcome = "other_error" ->
                     /\ Raise(Exception("OSError", "clone interrupted"))
                     /\ tmp_dirs' = tmp_dirs \cup {i}
                     /\ world' = [world EXCEPT !.started = TRUE]
                [] outcome = "ok" ->
                     /\ locals' = [locals EXCEPT !.repo_path = Some(i)]
                     /\ tmp_dirs' = tmp_dirs \cup {i}
                     /\ world' = [world EXCEPT !.started = TRUE, !.all_ok = TRUE]
                     /\ pc' = "scan"
    /\ UNCHANGED <<repo_urls, continue_on_error, keep_clone, github_token, i,
                   results, log, scoring_vars>>

(* get_repository_structure and get_commit_count *)
ScanRepo ==
    /\ pc = "scan"
    /\ \/ \E clone \in ScanInputs :
             /\ locals' = [locals EXCEPT
                              !.repo_structure =
                                  Some(get_repository_structure(clone)),
                              !.commit_count = Some(clone.commit_count)]
             /\ pc' = "test_automation"
             /\ UNCHANGED world
       \/ /\ Raise(Exception("GitCommandError", "git rev-list failed"))
          /\ world' = [world EXCEPT !.all_ok = FALSE]
    /\ UNCHANGED <<repo_urls, continue_on_error, keep_clone, github_token, i, results,
                   tmp_dirs, log, scoring_vars>>

AnalyzeTestAutomation ==
    /\ pc = "test_automation"
    /\ \E response \in AIResponses :
          LET r == analyze_test_automation(response)
          IN  /\ IF r.raised THEN Raise(r.exc)
                 ELSE /\ locals' = [locals EXCEPT !.test_automation = Some(r.value)]
                      /\ pc' = "ci_pipeline"
              /\ world' = Observe(world, "test_automation", response, 5)
    /\ UNCHANGED <<repo_urls, continue_on_error, keep_clone, github_token, i, results,
                   tmp_dirs, log, scoring_vars>>

AnalyzeCIPipeline ==
    /\ pc = "ci_pipeline"
    /\ \E response \in AIResponses :
          LET r == analyze_ci_pipeline(response)
          IN  /\ IF r.raised THEN Raise(r.exc)
                 ELSE /\ locals' = [locals EXCEPT !.ci_pipeline = Some(r.value)]
                      /\ pc' = "quality_process"
              /\ world' = Observe(world, "ci_pipeline", response, 5)
    /\ UNCHANGED <<repo_urls, continue_on_error, keep_clone, github_token, i, results,
                   tmp_dirs, log, scoring_vars>>

AnalyzeQualityProcess ==
    /\ pc = "quality_process"
    /\ \E response \in AIResponses :
          LET r == analyze_quality_process(response)
          IN  /\ IF r.raised THEN Raise(r.exc)
                 ELSE /\ locals' = [locals EXCEPT !.quality_process = Some(r.value)]
                      /\ pc' = "technical_skills"
              /\ world' = Observe(world, "quality_process", response, 5)
    /\ UNCHANGED <<repo_urls, continue_on_error, keep_clone, github_token, i, results,
                   tmp_dirs, log, scoring_vars>>

(* analyze_technical_skills, the QAMetrics construction and the            *)
(* assessment, up to the return of analyze_full_qa_repository              *)
AnalyzeTechnicalSkillsAndAssess ==
    /\ pc = "technical_skills"
    /\ \E response \in AIResponses,
          frameworks \in Orders(locals.repo_structure[1].test_frameworks) :
          LET r == AssessRepository(locals.repo_structure[1],
                                    locals.commit_count[1], frameworks,
                                    locals.test_automation[1],
                                    locals.ci_pipeline[1],
                                    locals.quality_process[1], response)
          IN  /\ IF r.raised THEN Raise(r.exc)
                 ELSE /\ locals' = [locals EXCEPT !.metrics = Some(r.value)]
                      /\ pc' = "finally"
              /\ world' = Observe(world, "technical_skills", response, 3)
    /\ UNCHANGED <<repo_urls, continue_on_error, keep_clone, github_token, i, results,
                   tmp_dirs, log, scoring_vars>>

(* the finally clause of compute_qa_metrics *)
Finally ==
    /\ pc = "finally"
    /\ tmp_dirs' = IF locals.repo_path # None /\ ~keep_clone
                   THEN tmp_dirs \ {locals.repo_path[1]}
                   ELSE tmp_dirs
    /\ pc' = "record"
    /\ UNCHANGED <<repo_urls, continue_on_error, keep_clone, github_token, i, results,
                   locals, world, log, scoring_vars>>

(* back in the batch loop: append the result of this URL *)
RecordResult ==
    /\ pc = "record"
    /\ locals.exc = None \/ continue_on_error
    /\ results' = record_result(results, repo_urls[i], locals)
    /\ log' = Append(log, [world EXCEPT !.raised = locals.exc # None])
    /\ i' = i + 1
    /\ pc' = "loop"
    /\ UNCHANGED <<repo_urls, continue_on_error, keep_clone, github_token, locals,
                   tmp_dirs, world, scoring_vars>>

(* BatchRaise that appends the failure record before it re-raises *)
BatchRaise_Recording ==
    /\ pc = "record"
    /\ locals.exc # None
    /\ ~continue_on_error
    /\ results' = record_result(results, repo_urls[i], locals)
    /\ log' = Append(log, [world EXCEPT !.raised = TRUE])
    /\ pc' = "raised"
    /\ UNCHANGED <<repo_urls, continue_on_error, keep_clone, github_token, i,
                   locals, tmp_dirs, world, scoring_vars>>

(* continue_on_error is false and the evaluation raised: re-raise *)
BatchRaise ==
    /\ pc = "record"
    /\ locals.exc # None
    /\ ~continue_on_error
    /\ log' = Append(log, [world EXCEPT !.raised = TRUE])
    /\ pc' = "raised"
    /\ UNCHANGED <<repo_urls, continue_on_error, keep_clone, github_token, i, results,
                   locals, tmp_dirs, world, scoring_vars>>

Next ==
    \/ StartRepository
    \/ BatchReturn
    \/ CloneRepo
    \/ ScanRepo
    \/ AnalyzeTestAutomation
    \/ AnalyzeCIPipeline
    \/ AnalyzeQualityProcess
    \/ AnalyzeTechnicalSkillsAndAssess
    \/ Finally
    \/ RecordResult
    \/ BatchRaise

Spec == Init /\ [][Next]_vars

----------------------------------------------------------------------------
(* Properties of determine_verdict, calculate_overall_qa_score and         *)
(* determine_qa_level, checked under SpecScoring.  Category averages are   *)
(* stated exactly, through the sum of the five sub-scores: an average is   *)
(* at least 6.0 iff the sum is at least 30.                                *)

RowSum(category) == SeqSum(arg_metrics[category])

(* the exact average total/5 with one decimal *)
ExactTenths(total) ==
    Digits((2 * total) \div 10) \o <<".">> \o Digits((2 * total) % 10)

Contains(text, part) ==
    \E k \in 1..(Len(text) - Len(part) + 1) :
        SubSeq(text, k, k + Len(part) - 1) = part

EndsWith(text, part) ==
    /\ Len(text) >= Len(part)
    /\ SubSeq(text, Len(text) - Len(part) + 1, Len(text)) = part

ScoreText == <<" (Score: ">> \o Str(arg_score) \o <<")">>

TestFilesMessage(minimum) ==
    <<"Insufficient test files (">> \o Str(arg_metrics.test_file_count)
    \o <<" < ">> \o Str(minimum) \o <<")">>

CommitsMessage(minimum) ==
    <<"Insufficient commit history (">> \o Str(arg_metrics.commit_count)
    \o <<" < ">> \o Str(minimum) \o <<")">>

LowScoreMessage(category) ==
    <<"Low ", category, " score (">> \o ExactTenths(RowSum(category)) \o <<")">>

MeetsPassRequirements ==
    /\ arg_metrics.test_file_count >= 5
    /\ arg_metrics.commit_count >= 10
    /\ RowSum("test_automation") >= 30
    /\ RowSum("repository_structure") >= 30

MeetsConditionalRequirements ==
    /\ arg_metrics.test_file_count >= 3
    /\ arg_metrics.commit_count >= 5
    /\ RowSum("test_automation") >= 20

(* C2: determine_verdict returns PASS iff the overall score is at least 70 *)
(* and test_file_count >= 5, commit_count >= 10 and the averages of        *)
(* test_automation and repository_structure are at least 6.0; exactly then *)
(* the reason is "Strong QA skills demonstrated across all areas (Score:   *)
(* <score>)".                                                              *)
C2_PassIffAllRequirements ==
    call = "determine_verdict" =>
        /\ ret[1] = "PASS" <=> (arg_score >= 70 /\ MeetsPassRequirements)
        /\ (ret[2] = <<"Strong QA skills demonstrated across all areas">>
                     \o ScoreText)
           <=> (arg_score >= 70 /\ MeetsPassRequirements)

C2_Witness ==
    /\ call = "determine_verdict"
    /\ arg_score = 75
    /\ ret = <<"PASS", <<"Strong QA skills demonstrated across all areas",
                         " (Score: ", "7", "5", ")">> >>

(* C3: for every overall score below 50 determine_verdict returns FAIL,    *)
(* whatever the counts and averages are, with exactly the reason "Overall  *)
(* QA score (<score>) is below minimum threshold" (no other reason, no     *)
(* score suffix); and FAIL is returned only for a score below 50.          *)
C3_FailIffBelowFifty ==
    call = "determine_verdict" =>
        /\ arg_score < 50 =>
              ret = <<"FAIL", <<"Overall QA score (">> \o Str(arg_score)
                                \o <<") is below minimum threshold">> >>
        /\ arg_score = 40 =>
              ret[2] = <<"Overall QA score (", "4", "0",
                         ") is below minimum threshold">>
        /\ ret[1] = "FAIL" => arg_score < 50

C3_Witness ==
    /\ call = "determine_verdict"
    /\ arg_score = 40
    /\ MeetsPassRequirements
    /\ ret[1] = "FAIL"

(* C4: for every overall score of at least 70, a failed PASS requirement   *)
(* check makes the verdict CONDITIONAL_PASS, the reason contains the       *)
(* message of every failed check and ends with " (Score: <score>)".        *)
C4_FailedCheckDowngradesPass ==
    (call = "determine_verdict" /\ arg_score >= 70 /\ ~MeetsPassRequirements) =>
        /\ ret[1] = "CONDITIONAL_PASS"
        /\ arg_metrics.test_file_count < 5 =>
              Contains(ret[2], TestFilesMessage(5))
        /\ arg_metrics.commit_count < 10 =>
              Contains(ret[2], CommitsMessage(10))
        /\ \A c \in {"test_automation", "repository_structure"} :
              RowSum(c) < 30 => Contains(ret[2], LowScoreMessage(c))
        /\ EndsWith(ret[2], ScoreText)

C4_Witness ==
    /\ call = "determine_verdict"
    /\ arg_score = 75
    /\ arg_metrics.test_file_count = 2
    /\ ret[1] = "CONDITIONAL_PASS"
    /\ Contains(ret[2], <<"Insufficient test files (", "2", " < ", "5", ")">>)
    /\ EndsWith(ret[2], <<" (Score: ", "7", "5", ")">>)

(* C5: for every overall score from 50 to 69 determine_verdict returns     *)
(* CONDITIONAL_PASS for all counts and averages (a failed check adds a     *)
(* reason and never gives FAIL); with no failed check the reason is "Good  *)
(* QA foundation with room for improvement (Score: <score>)".              *)
C5_ConditionalBandStays ==
    (call = "determine_verdict" /\ arg_score >= 50 /\ arg_score < 70) =>
        /\ ret[1] = "CONDITIONAL_PASS"
        /\ MeetsConditionalRequirements =>
              ret[2] = <<"Good QA foundation with room for improvement">>
                       \o ScoreText
        /\ arg_metrics.test_file_count < 3 =>
              Contains(ret[2], TestFilesMessage(3))
        /\ arg_metrics.commit_count < 5 =>
              Contains(ret[2], CommitsMessage(5))
        /\ RowSum("test_automation") < 20 =>
              Contains(ret[2], LowScoreMessage("test_automation"))

C5_Witness ==
    /\ call = "determine_verdict"
    /\ arg_score = 69
    /\ arg_metrics.test_file_count = 2
    /\ arg_metrics.commit_count = 4
    /\ RowSum("test_automation") = 19
    /\ ret[1] = "CONDITIONAL_PASS"

(* the weighted sum of the category sums, exactly: 10 * (0.30 * Sta / 5 +  *)
(* 0.25 * Sts / 5 + 0.25 * Sqp / 5 + 0.20 * Sci / 5), floored              *)
ExactScore ==
    (6 * RowSum("test_automation") + 5 * RowSum("technical_skills")
     + 5 * RowSum("quality_process") + 4 * RowSum("ci_pipeline")) \div 10

(* C6: calculate_overall_qa_score is the weighted sum of the category      *)
(* averages (weights 0.30, 0.25, 0.25, 0.20) scaled by 10 and truncated:   *)
(* floor((6*Sta + 5*Sts + 5*Sqp + 4*Sci) / 10) for integer sub-scores.     *)
C6_ScoreIsExactFloor ==
    call = "calculate_overall_qa_score" => ret = ExactScore

SubScoresInRange ==
    \A c \in {CategoryNames[k] : k \in 1..Len(CategoryNames)} :
        \A k \in 1..SubScoreCount :
            arg_metrics[c][k] >= 0 /\ arg_metrics[c][k] <= 10

WeightedCategories == {ScoreWeights[k][1] : k \in 1..Len(ScoreWeights)}

(* C7: for sub-scores in [0, 10] calculate_overall_qa_score returns an     *)
(* integer in [0, 100]: exactly 100 when every weighted category average   *)
(* is 10.0 and exactly 0 when every one is 0.0.                            *)
C7_ScoreInRange ==
    (call = "calculate_overall_qa_score" /\ SubScoresInRange) =>
        /\ ret \in 0..100
        /\ (\A c \in WeightedCategories : RowSum(c) = 50) => ret = 100
        /\ (\A c \in WeightedCategories : RowSum(c) = 0) => ret = 0

C7_Witness ==
    /\ call = "calculate_overall_qa_score"
    /\ SubScoresInRange
    /\ \A c \in WeightedCategories : RowSum(c) = 50
    /\ ret = 100

(* C8: determine_qa_level is total and returns the level of the highest    *)
(* threshold the score meets: Expert from 85, Advanced from 70,            *)
(* Intermediate from 50, Beginner below, also for a negative score.        *)
C8_LevelByHighestThreshold ==
    call = "determine_qa_level" =>
        ret = IF arg_score >= 85 THEN "Expert"
              ELSE IF arg_score >= 70 THEN "Advanced"
              ELSE IF arg_score >= 50 THEN "Intermediate"
              ELSE "Beginner"

C8_Witness ==
    /\ call = "determine_qa_level"
    /\ arg_score = 85
    /\ ret = "Expert"

(* the messages of the failed checks of the requirement set the score     *)
(* selects, in the order test files, commit history, test_automation,      *)
(* repository_structure                                                    *)
ExpectedReasons ==
    IF arg_score >= 70
    THEN (IF arg_metrics.test_file_count < 5
          THEN <<TestFilesMessage(5)>> ELSE <<>>)
         \o (IF arg_metrics.commit_count < 10
             THEN <<CommitsMessage(10)>> ELSE <<>>)
         \o (IF RowSum("test_automation") < 30
             THEN <<LowScoreMessage("test_automation")>> ELSE <<>>)
         \o (IF RowSum("repository_structure") < 30
             THEN <<LowScoreMessage("repository_structure")>> ELSE <<>>)
    ELSE (IF arg_metrics.test_file_count < 3
          THEN <<TestFilesMessage(3)>> ELSE <<>>)
         \o (IF arg_metrics.commit_count < 5
             THEN <<CommitsMessage(5)>> ELSE <<>>)
         \o (IF RowSum("test_automation") < 20
             THEN <<LowScoreMessage("test_automation")>> ELSE <<>>)

(* C20: when a requirement check fails for a score of at least 50, the     *)
(* reason is the messages of the failed checks in the order test files,    *)
(* commit history, test_automation, repository_structure, joined by "; "   *)
(* and followed by " (Score: <score>)"; a reason with several messages     *)
(* lacks the score suffix only when the verdict is FAIL.                   *)
C20_ReasonsInCheckOrder ==
    call = "determine_verdict" =>
        /\ (arg_score >= 50 /\ ExpectedReasons # <<>>) =>
              ret[2] = Join(ExpectedReasons, "; ") \o ScoreText
        /\ (Contains(ret[2], <<"; ">>) /\ ~EndsWith(ret[2], ScoreText)) =>
              ret[1] = "FAIL"

C20_Witness ==
    /\ call = "determine_verdict"
    /\ arg_score = 75
    /\ ret[2] = <<"Insufficient test files (", "2", " < ", "5", ")", "; ",
                  "Insufficient commit history (", "4", " < ", "1", "0", ")",
                  "; ", "Low ", "test_automation", " score (", "5", ".", "8",
                  ")", "; ", "Low ", "repository_structure", " score (", "5",
                  ".", "8", ")", " (Score: ", "7", "5", ")">>

(* C21: the requirement set is chosen once from the overall score and     *)
(* used for all three checks.  For a score from 50 to 69 the reason names  *)
(* the test files iff there are fewer than 3, the commit history iff there *)
(* are fewer than 5 commits, test_automation iff its average is below 4.0, *)
(* and never repository_structure nor a PASS threshold.  For a score of at *)
(* least 70 the checks are 5 test files, 10 commits and an average of 6.0  *)
(* for test_automation and repository_structure, also after an earlier     *)
(* check has downgraded the verdict to CONDITIONAL_PASS.                    *)
C21_RequirementSetChosenOnce ==
    call = "determine_verdict" =>
        /\ (arg_score >= 50 /\ arg_score < 70) =>
              /\ Contains(ret[2], TestFilesMessage(3))
                    <=> arg_metrics.test_file_count < 3
              /\ Contains(ret[2], CommitsMessage(5))
                    <=> arg_metrics.commit_count < 5
              /\ Contains(ret[2], LowScoreMessage("test_automation"))
                    <=> RowSum("test_automation") < 20
              /\ ~Contains(ret[2], <<"repository_structure">>)
              /\ ~Contains(ret[2], TestFilesMessage(5))
              /\ ~Contains(ret[2], CommitsMessage(10))
        /\ arg_score >= 70 =>
              /\ Contains(ret[2], TestFilesMessage(5))
                    <=> arg_metrics.test_file_count < 5
              /\ Contains(ret[2], CommitsMessage(10))
                    <=> arg_metrics.commit_count < 10
              /\ Contains(ret[2], LowScoreMessage("test_automation"))
                    <=> RowSum("test_automation") < 30
              /\ Contains(ret[2], LowScoreMessage("repository_structure"))
                    <=> RowSum("repository_structure") < 30
              /\ ~Contains(ret[2], TestFilesMessage(3))
              /\ ~Contains(ret[2], CommitsMessage(5))

(* a score of 75 with 3 test files: the first check downgrades the         *)
(* verdict, and the later checks still ask for 10 commits and 6.0          *)
C21_Witness ==
    /\ call = "determine_verdict"
    /\ arg_score = 75
    /\ arg_metrics.test_file_count = 3
    /\ arg_metrics.commit_count = 5
    /\ RowSum("test_automation") = 30
    /\ RowSum("repository_structure") = 29
    /\ ret[1] = "CONDITIONAL_PASS"
    /\ ret[2] = <<"Insufficient test files (", "3", " < ", "5", ")", "; ",
                  "Insufficient commit history (", "5", " < ", "1", "0", ")",
                  "; ", "Low ", "repository_structure", " score (", "5", ".",
                  "8", ")", " (Score: ", "7", "5", ")">>

(* the argument with other repository_structure sub-scores *)
WithStructure(row) == [arg_metrics EXCEPT !.repository_structure = row]

(* repository_structure score sets: all zero, an average of 6.0 and an     *)
(* uneven set                                                              *)
StructureRows == {Row(0), Row(30), <<MaxSub, 0, 0, 0, 0>>}

SameScoreAndLevel(score) ==
    /\ score = ret
    /\ determine_qa_level(score) = determine_qa_level(ret)

(* C27: the overall score and the maturity level do not depend on the      *)
(* repository_structure sub-scores: an outcome that differs only in them   *)
(* gets the same overall score and the same level.                         *)
C27_StructureNotScored ==
    call = "calculate_overall_qa_score" =>
        \A row \in StructureRows :
            SameScoreAndLevel(calculate_overall_qa_score(WithStructure(row)))

(* a score of 72 that is the same for a repository_structure average of    *)
(* 3.8 and of 6.0, although only the latter passes the PASS requirements   *)
C27_Witness ==
    /\ call = "calculate_overall_qa_score"
    /\ ret = 72
    /\ arg_metrics.test_file_count = 5
    /\ arg_metrics.commit_count = 10
    /\ RowSum("repository_structure") = 19
    /\ calculate_overall_qa_score(WithStructure(Row(30))) = 72
    /\ determine_verdict(arg_metrics, ret)[1] = "CONDITIONAL_PASS"
    /\ determine_verdict(WithStructure(Row(30)), ret)[1] = "PASS"

BelowThresholdMessage ==
    <<"Overall QA score (">> \o Str(arg_score)
    \o <<") is below minimum threshold">>

(* C22: determine_verdict returns a non-empty reason for every input, and  *)
(* never the fallback "QA skills need significant development (Score:      *)
(* <score>)": a FAIL verdict always comes with the below-threshold reason. *)
C22_ReasonAlwaysDefined ==
    call = "determine_verdict" =>
        /\ Len(ret[2]) > 0
        /\ ret[2][1] # ""
        /\ ~Contains(ret[2], <<"QA skills need significant development">>)
        /\ ret[1] = "FAIL" => ret[2] = BelowThresholdMessage

C22_Witness ==
    /\ call = "determine_verdict"
    /\ arg_score = 49
    /\ ret = <<"FAIL", <<"Overall QA score (", "4", "9",
                         ") is below minimum threshold">> >>

----------------------------------------------------------------------------
(* Properties of identify_strengths_and_improvements, checked under        *)
(* SpecInsights.                                                           *)

(* C11: identify_strengths_and_improvements never divides by zero: with    *)
(* total_file_count = 0 it returns normally for every test_file_count and  *)
(* "High Test Coverage Ratio" is not among the strengths.                  *)
C11_NoDivisionByZero ==
    (call = "identify_strengths_and_improvements"
     /\ arg_metrics.total_file_count = 0) =>
        /\ ~ret.raised
        /\ \A k \in 1..Len(ret.value.strengths) :
              ret.value.strengths[k] # "High Test Coverage Ratio"

HumanizedNames == {Humanize[c] : c \in DOMAIN Humanize}

IsCategoryLabel(label) == label \in HumanizedNames

IsStrong(category) == 2 * RowSum(category) >= 75

IsWeak(category) == 2 * RowSum(category) < 50

HumanizeAll(names) == [k \in 1..Len(names) |-> Humanize[names[k]]]

(* C12: identify_strengths_and_improvements lists, in the order of the     *)
(* get_category_scores mapping, the humanized name of a category among the *)
(* strengths iff its average is at least 7.5 and among the improvements    *)
(* iff its average is below 5.0; averages in [5.0, 7.5) give neither and   *)
(* no category name is in both lists.                                      *)
C12_CategoryInsights ==
    (call = "identify_strengths_and_improvements" /\ ~ret.raised) =>
        /\ SelectSeq(ret.value.strengths, IsCategoryLabel)
           = HumanizeAll(SelectSeq(CategoryNames, IsStrong))
        /\ SelectSeq(ret.value.improvements, IsCategoryLabel)
           = HumanizeAll(SelectSeq(CategoryNames, IsWeak))
        /\ \A c \in DOMAIN Humanize :
              ~(\E k \in 1..Len(ret.value.strengths) :
                    ret.value.strengths[k] = Humanize[c]
                /\ \E n \in 1..Len(ret.value.improvements) :
                    ret.value.improvements[n] = Humanize[c])

C12_Witness ==
    /\ call = "identify_strengths_and_improvements"
    /\ RowSum("test_automation") = 38
    /\ RowSum("ci_pipeline") = 24
    /\ RowSum("quality_process") = 37
    /\ RowSum("technical_skills") = 25
    /\ RowSum("repository_structure") = 38
    /\ ret.value.strengths = <<"Test Automation", "Repository Structure">>
    /\ ret.value.improvements = <<"Ci Pipeline">>

Lists(seq, label) == \E k \in 1..Len(seq) : seq[k] = label

(* C24: the test-coverage insight is exclusive.  Without test files the    *)
(* improvement "Test Coverage - No test files found" is added and no ratio *)
(* is computed, also when there are no files at all; with test files the   *)
(* strength "High Test Coverage Ratio" is added iff test_file_count /      *)
(* total_file_count is strictly greater than 0.3, a ratio of exactly 0.3   *)
(* adding nothing; the two labels never both appear.                       *)
C24_CoverageInsightExclusive ==
    call = "identify_strengths_and_improvements" =>
        /\ arg_metrics.test_file_count = 0 =>
              /\ ~ret.raised
              /\ Lists(ret.value.improvements,
                       "Test Coverage - No test files found")
              /\ ~Lists(ret.value.strengths, "High Test Coverage Ratio")
        /\ (arg_metrics.test_file_count > 0
            /\ arg_metrics.total_file_count > 0) =>
              /\ ~ret.raised
              /\ Lists(ret.value.strengths, "High Test Coverage Ratio")
                    <=> 10 * arg_metrics.test_file_count
                        > 3 * arg_metrics.total_file_count
              /\ ~Lists(ret.value.improvements,
                        "Test Coverage - No test files found")
        /\ ~ret.raised =>
              ~(/\ Lists(ret.value.strengths, "High Test Coverage Ratio")
                /\ Lists(ret.value.improvements,
                         "Test Coverage - No test files found"))

(* 3 test files among 10 files: a ratio of exactly 0.3 adds nothing *)
C24_Witness ==
    /\ call = "identify_strengths_and_improvements"
    /\ arg_metrics.test_file_count = 3
    /\ arg_metrics.total_file_count = 10
    /\ arg_metrics.commit_count = 5
    /\ arg_metrics.test_frameworks = <<"pytest">>
    /\ ~ret.raised
    /\ ret.value.strengths = <<>>
    /\ ret.value.improvements = <<>>

----------------------------------------------------------------------------
(* Properties of the summary functions, checked under SpecSummary.         *)

(* the entries that carry an outcome and no error description *)
Successes ==
    SelectSeq(results, LAMBDA r : r.metrics # None /\ r.error_message = None)

SuccessField(field) ==
    [k \in 1..Len(Successes) |-> Successes[k].metrics[1][field]]

SummaryCalled == call \in {"get_evaluation_summary", "generate_report_summary"}

BucketOf(score) ==
    IF score >= 85 THEN "Expert (85-100)"
    ELSE IF score >= 70 THEN "Advanced (70-84)"
    ELSE IF score >= 50 THEN "Intermediate (50-69)"
    ELSE "Beginner (0-49)"

BucketLabels ==
    {"Expert (85-100)", "Advanced (70-84)", "Intermediate (50-69)",
     "Beginner (0-49)"}

(* C14: both summary functions report successful + failed = total number   *)
(* of results; with at least one success the four score buckets of         *)
(* get_evaluation_summary count every success in exactly one bucket, so    *)
(* they sum to the number of successes.                                    *)
C14_CountsAddUp ==
    SummaryCalled =>
        /\ ret.total_repositories = Len(results)
        /\ ret.successful_evaluations + ret.failed_evaluations = Len(results)
        /\ (call = "get_evaluation_summary" /\ Successes # <<>>) =>
              /\ DOMAIN ret.score_distribution = BucketLabels
              /\ \A label \in BucketLabels :
                    ret.score_distribution[label]
                    = Cardinality({k \in 1..Len(Successes) :
                        BucketOf(Successes[k].metrics[1].overall_qa_maturity_score)
                        = label})
              /\ ret.score_distribution["Expert (85-100)"]
                 + ret.score_distribution["Advanced (70-84)"]
                 + ret.score_distribution["Intermediate (50-69)"]
                 + ret.score_distribution["Beginner (0-49)"]
                 = Len(Successes)

C14_Witness ==
    /\ call = "get_evaluation_summary"
    /\ Len(results) = 3
    /\ ret.successful_evaluations = 2
    /\ ret.failed_evaluations = 1
    /\ ret.score_distribution["Intermediate (50-69)"] = 1
    /\ ret.score_distribution["Beginner (0-49)"] = 1

IsMalformed(r) ==
    \/ r.metrics # None /\ r.error_message # None
    \/ r.metrics = None /\ r.error_message = None

(* C15: summarizing a result list in which some entry has both metrics and *)
(* an error message, or neither, fails instead of producing a summary.     *)
C15_MalformedEntryRejected ==
    (SummaryCalled /\ \E k \in 1..Len(results) : IsMalformed(results[k])) =>
        "raised" \in DOMAIN ret /\ ret.raised

(* C16: the verdict distribution maps exactly the verdicts that occur      *)
(* among the successful results to their numbers of occurrences; results   *)
(* that are not successful are counted as failures and contribute to       *)
(* neither the average score, the score distribution nor the verdict       *)
(* distribution.                                                           *)
C16_VerdictDistribution ==
    SummaryCalled =>
        /\ DOMAIN ret.verdict_distribution
           = {SuccessField("final_verdict")[k] : k \in 1..Len(Successes)}
        /\ \A v \in DOMAIN ret.verdict_distribution :
              ret.verdict_distribution[v]
              = Cardinality({k \in 1..Len(Successes) :
                                SuccessField("final_verdict")[k] = v})
        /\ ret.successful_evaluations = Len(Successes)
        /\ ret.failed_evaluations = Len(results) - Len(Successes)
        /\ Successes # <<>> =>
              FCmp(IF call = "get_evaluation_summary"
                   THEN ret.average_score ELSE ret.average_qa_maturity_score,
                   FDivSmall(FFromInt(SeqSum(SuccessField("overall_qa_maturity_score"))),
                             Len(Successes))) = 0
        /\ (call = "get_evaluation_summary" /\ Successes # <<>>) =>
              \A label \in BucketLabels :
                  ret.score_distribution[label] <= Len(Successes)

C16_Witness ==
    /\ call = "generate_report_summary"
    /\ Len(results) = 3
    /\ \E k \in 1..3 : results[k].metrics # None /\ results[k].error_message # None
    /\ ret.failed_evaluations = 1
    /\ DOMAIN ret.verdict_distribution = {"PASS", "FAIL"}
    /\ ret.verdict_distribution["PASS"] = 1
    /\ ret.verdict_distribution["FAIL"] = 1

FloatIsZero(x) == FCmp(x, FFromInt(0)) = 0

(* a Python number that is the int 0 or the float 0.0 *)
NumberIsZero(x) ==
    IF "int" \in DOMAIN x THEN x.int = 0 ELSE FloatIsZero(x.float)

(* C17: no summary computation divides by zero: without a success, for an  *)
(* empty list as for a list of failures, the success rate is zero and the  *)
(* average score is 0.0, in get_evaluation_summary, in                     *)
(* generate_report_summary and in QAReportSummary.to_dict.                 *)
C17_NoSuccessNoDivision ==
    Successes = <<>> =>
        /\ call = "get_evaluation_summary" =>
              FloatIsZero(ret.success_rate) /\ FloatIsZero(ret.average_score)
        /\ call = "generate_report_summary" =>
              /\ ret.successful_evaluations = 0
              /\ FloatIsZero(ret.average_qa_maturity_score)
        /\ call = "QAReportSummary.to_dict" =>
              /\ "success_rate" \in DOMAIN ret
              /\ NumberIsZero(ret.success_rate)
              /\ FloatIsZero(ret.average_qa_maturity_score)

C17_Witness ==
    /\ call = "QAReportSummary.to_dict"
    /\ results = <<>>
    /\ ret.success_rate = [int |-> 0]
    /\ ret.total_repositories = 0

(* the labels of a list field over all successes *)
RECURSIVE AllLabels(_, _)
AllLabels(successes, field) ==
    IF successes = <<>> THEN <<>>
    ELSE Head(successes).metrics[1][field] \o AllLabels(Tail(successes), field)

Frequency(labels, label) ==
    Cardinality({k \in 1..Len(labels) : labels[k] = label})

(* top holds at most 5 distinct labels of labels, in non-increasing order  *)
(* of frequency, and no label left out is more frequent than one taken     *)
IsTopFive(top, labels) ==
    /\ Len(top) <= 5
    /\ \A k, n \in 1..Len(top) : k # n => top[k] # top[n]
    /\ \A k \in 1..Len(top) : Frequency(labels, top[k]) >= 1
    /\ \A k \in 1..(Len(top) - 1) :
          Frequency(labels, top[k]) >= Frequency(labels, top[k + 1])
    /\ \A n \in 1..Len(labels) :
          (\A k \in 1..Len(top) : top[k] # labels[n]) =>
              \A k \in 1..Len(top) :
                  Frequency(labels, labels[n]) <= Frequency(labels, top[k])

(* C18: common_strengths, common_improvement_areas and top_frameworks of   *)
(* generate_report_summary each hold at most 5 pairwise distinct labels    *)
(* that occur in the corresponding list of some successful result, in      *)
(* non-increasing order of total frequency, and no omitted label is        *)
(* strictly more frequent than an included one.                            *)
C18_MostCommonLabels ==
    call = "generate_report_summary" =>
        /\ IsTopFive(ret.common_strengths, AllLabels(Successes, "strengths"))
        /\ IsTopFive(ret.common_improvement_areas,
                     AllLabels(Successes, "improvement_areas"))
        /\ IsTopFive(ret.top_frameworks, AllLabels(Successes, "test_frameworks"))

C18_Witness ==
    /\ call = "generate_report_summary"
    /\ Len(ret.common_strengths) = 5
    /\ Cardinality({AllLabels(Successes, "strengths")[k] :
                        k \in 1..Len(AllLabels(Successes, "strengths"))}) > 5
    /\ Frequency(AllLabels(Successes, "strengths"), ret.common_strengths[1])
       > Frequency(AllLabels(Successes, "strengths"), ret.common_strengths[5])

(* C19: summarizing leaves the result list and its results as they were,   *)
(* and summarizing the same list again with the same function returns an   *)
(* identical summary, the order of labels with equal frequency included,   *)
(* whichever interpreter process makes the second call.                    *)
C19_SummaryRepeatable ==
    prev # <<>> =>
        /\ results = prev[1].results
        /\ (SummaryCalled /\ prev[1].call = call) => ret = prev[1].ret

(* both summary functions have been applied to the list, one after the    *)
(* other                                                                   *)
BothSummaries ==
    /\ prev # <<>>
    /\ {call, prev[1].call}
         = {"get_evaluation_summary", "generate_report_summary"}

EvaluationSummary ==
    IF call = "get_evaluation_summary" THEN ret ELSE prev[1].ret

ReportSummary ==
    IF call = "generate_report_summary" THEN ret ELSE prev[1].ret

LevelOfBucket ==
    [label \in BucketLabels |->
        CASE label = "Expert (85-100)"      -> "Expert"
          [] label = "Advanced (70-84)"     -> "Advanced"
          [] label = "Intermediate (50-69)" -> "Intermediate"
          [] label = "Beginner (0-49)"      -> "Beginner"]

(* dict.get(key, 0) *)
CountIn(dict, key) == IF key \in DOMAIN dict THEN dict[key] ELSE 0

LevelsFollowScores ==
    \A k \in 1..Len(Successes) :
        Successes[k].metrics[1].qa_level
            = determine_qa_level(
                  Successes[k].metrics[1].overall_qa_maturity_score)

(* C30: for every result list get_evaluation_summary and                   *)
(* generate_report_summary agree on the total, successful and failed       *)
(* counts, on the average overall score and on the verdict distribution;   *)
(* when every success's level is the level of its score, the non-zero      *)
(* score buckets of the former are the level counts of the latter.         *)
C30_SummariesAgree ==
    BothSummaries =>
        /\ EvaluationSummary.total_repositories
              = ReportSummary.total_repositories
        /\ EvaluationSummary.successful_evaluations
              = ReportSummary.successful_evaluations
        /\ EvaluationSummary.failed_evaluations
              = ReportSummary.failed_evaluations
        /\ FCmp(EvaluationSummary.average_score,
                ReportSummary.average_qa_maturity_score) = 0
        /\ EvaluationSummary.verdict_distribution
              = ReportSummary.verdict_distribution
        /\ LevelsFollowScores =>
              /\ \A label \in BucketLabels :
                    CountIn(EvaluationSummary.score_distribution, label)
                      = CountIn(ReportSummary.qa_level_distribution,
                                LevelOfBucket[label])
              /\ \A level \in DOMAIN ReportSummary.qa_level_distribution :
                    /\ ReportSummary.qa_level_distribution[level] > 0
                    /\ \E label \in BucketLabels : LevelOfBucket[label] = level

C30_Witness ==
    /\ BothSummaries
    /\ call = "generate_report_summary"
    /\ Len(results) = 3
    /\ ret.successful_evaluations = 2
    /\ ret.failed_evaluations = 1
    /\ prev[1].ret.score_distribution["Expert (85-100)"] = 1
    /\ prev[1].ret.score_distribution["Advanced (70-84)"] = 0
    /\ ret.qa_level_distribution = [level \in {"Expert", "Beginner"} |-> 1]
    /\ FCmp(ret.average_qa_maturity_score, FDivSmall(FFromInt(87 + 30), 2)) = 0

----------------------------------------------------------------------------
(* Level and verdict of one overall score, checked under SpecScoring.      *)

(* C26: when the level and the verdict are both derived from the same      *)
(* overall score, the verdict is FAIL iff the level is Beginner, the level *)
(* Intermediate implies CONDITIONAL_PASS, and the verdict PASS implies the *)
(* level Advanced or Expert.                                               *)
C26_LevelVerdictConsistent ==
    call = "determine_verdict" =>
        /\ ret[1] = "FAIL" <=> determine_qa_level(arg_score) = "Beginner"
        /\ determine_qa_level(arg_score) = "Intermediate"
              => ret[1] = "CONDITIONAL_PASS"
        /\ ret[1] = "PASS"
              => determine_qa_level(arg_score) \in {"Advanced", "Expert"}

(* an Advanced score that a failed requirement keeps from PASS *)
C26_Witness ==
    /\ call = "determine_verdict"
    /\ arg_score = 75
    /\ determine_qa_level(arg_score) = "Advanced"
    /\ ret[1] = "CONDITIONAL_PASS"

----------------------------------------------------------------------------
(* Properties of the pipeline and the batch loop, checked under Spec.      *)

(* the outcome carries the assessment of its own category scores: the      *)
(* overall score of the outcome, the level and the verdict of exactly that *)
(* score, and the insights                                                 *)
AssessedInOrder(outcome) ==
    /\ \A k \in 1..Len(CategoryNames) :
          Len(outcome[CategoryNames[k]]) = SubScoreCount
    /\ outcome.overall_qa_maturity_score = calculate_overall_qa_score(outcome)
    /\ outcome.qa_level = determine_qa_level(outcome.overall_qa_maturity_score)
    /\ <<outcome.final_verdict, outcome.final_verdict_reason>>
          = determine_verdict(outcome, outcome.overall_qa_maturity_score)
    /\ ~identify_strengths_and_improvements(outcome).raised
    /\ outcome.strengths
          = identify_strengths_and_improvements(outcome).value.strengths
    /\ outcome.improvement_areas
          = identify_strengths_and_improvements(outcome).value.improvements

(* one step of the pipeline of a repository whose clone, scan and AI       *)
(* answers are all in order                                                *)
PipelineStepInOrder ==
    /\ (locals'.metrics # None /\ locals'.metrics # locals.metrics) =>
          /\ pc = "technical_skills"
          /\ locals.test_automation # None
          /\ locals.ci_pipeline # None
          /\ locals.quality_process # None
    /\ (pc = "technical_skills" /\ pc' # pc /\ world'.all_ok) =>
          /\ locals'.exc = None
          /\ locals'.metrics # None
          /\ AssessedInOrder(locals'.metrics[1])
    /\ pc \in {"finally", "record"} => locals'.metrics = locals.metrics

(* C23: within the pipeline of one repository the steps run in a fixed     *)
(* order: the four category analyses complete, then the overall score is   *)
(* aggregated from them, then the level and the verdict are computed from  *)
(* exactly the score stored in the outcome, then the insights; the outcome *)
(* is written by no step after that.                                       *)
C23_PipelineInFixedOrder == [][PipelineStepInOrder]_vars

(* C1: a repository whose clone, scan and four AI calls succeed with every *)
(* requested field is evaluated without an exception, and the batch        *)
(* records it as a success with the assessment filled in.                  *)
C1_CleanRunSucceeds ==
    \A k \in 1..Len(log) :
        log[k].all_ok =>
            /\ ~log[k].raised
            /\ k <= Len(results) =>
                  /\ is_successful(results[k])
                  /\ results[k].metrics[1].qa_level # ""

(* C9: with continue_on_error the batch never raises and holds exactly one *)
(* result per URL evaluated so far, in input order; an evaluation that     *)
(* raised gives one result without metrics and with an error message, and  *)
(* every URL has been evaluated when the batch returns.                    *)
C9_OneResultPerUrl ==
    continue_on_error =>
        /\ pc # "raised"
        /\ Len(results) = i - 1
        /\ Len(log) = Len(results)
        /\ \A k \in 1..Len(results) :
              /\ results[k].url = repo_urls[k]
              /\ log[k].started
              /\ log[k].raised =>
                    /\ results[k].metrics = None
                    /\ results[k].error_message # None
        /\ pc = "returned" => Len(results) = Len(repo_urls)

C9_Witness ==
    /\ continue_on_error
    /\ pc = "returned"
    /\ Len(repo_urls) = 2
    /\ repo_urls[1] # repo_urls[2]
    /\ log[1].raised
    /\ results[1].metrics = None
    /\ results[2].url = repo_urls[2]

(* compute_qa_metrics has ended for every URL started so far *)
EvaluationEnded == pc \in {"record", "loop", "returned", "raised"}

(* C28: when compute_qa_metrics has ended with keep_clone = False, by      *)
(* return or by exception, no temporary clone directory created during the *)
(* call is left: a successful clone is cleaned up on both paths of the     *)
(* analysis, a failed clone removes its own directory and a failed         *)
(* validation creates none; with keep_clone = True the directory of a      *)
(* successful clone is kept.                                               *)
C28_ClonesRemoved ==
    EvaluationEnded =>
        /\ ~keep_clone => tmp_dirs = {}
        /\ (keep_clone /\ pc = "record" /\ locals.repo_path # None) =>
              locals.repo_path[1] \in tmp_dirs

(* C29: without continue_on_error the first evaluation that raises makes   *)
(* the batch raise that exception: the URLs after it are not evaluated, no *)
(* failure record is appended for it, and no result list is returned.      *)
C29_FirstFailureStopsBatch ==
    ~continue_on_error =>
        /\ \A k \in 1..Len(results) : is_successful(results[k])
        /\ \A k \in 1..Len(log) :
              log[k].raised =>
                  /\ pc = "raised"
                  /\ k = Len(log)
                  /\ k = i
                  /\ Len(results) = i - 1
                  /\ locals.exc # None
        /\ pc = "raised" => log[Len(log)].raised
        /\ pc = "returned" => Len(results) = Len(repo_urls)

C29_Witness ==
    /\ ~continue_on_error
    /\ pc = "raised"
    /\ Len(repo_urls) = 2
    /\ i = 1
    /\ results = <<>>
    /\ Len(log) = 1
    /\ locals.exc[1].type = "TypeError"

(* C13: every sub-score stored in a category score set is an integer in   *)
(* [0, 10] for any AI payload: a missing field becomes 0 and a value       *)
(* outside the range is clamped.                                           *)
C13_SubScoresClamped ==
    \A c \in {"test_automation", "ci_pipeline", "quality_process"} :
        locals[c] # None =>
            /\ Len(locals[c][1]) = SubScoreCount
            /\ \A k \in 1..Len(locals[c][1]) : locals[c][1][k] \in 0..10

(* C10: when the AI call of a category fails or answers malformed JSON,    *)
(* the evaluation of that repository ends as a failure record that carries *)
(* an error description: no outcome, hence no overall score, level or      *)
(* verdict, is computed for it from substituted all-zero category scores.  *)
C10_AIFailureEndsEvaluation ==
    /\ world.ai_failure # None => locals.metrics = None
    /\ (pc \in {"finally", "record"} /\ world.ai_failure # None) =>
          locals.exc # None
    /\ \A k \in 1..Len(results) :
          log[k].ai_failure # None =>
              /\ results[k].metrics = None
              /\ results[k].error_message # None
              /\ results[k].error_message[1] # <<>>

(* the AI call of the CI analysis failed, zeros were substituted, and the  *)
(* evaluation is recorded as a failure with its error text                 *)
C10_Witness ==
    /\ pc = "loop"
    /\ Len(results) = 1
    /\ log[1].ai_failure = Some("ci_pipeline")
    /\ locals.ci_pipeline = Some(<<0, 0, 0, 0, 0>>)
    /\ locals.metrics = None
    /\ results[1].metrics = None
    /\ results[1].error_message # None
    /\ results[1].error_message[1] # <<>>

====
